---- MODULE Spec2Model ----
(***************************************************************************)
(* A model of the simulation core of gonutz/ld36 (package game):           *)
(* tile sweeps, rock physics, player locomotion, camera, gate sequence     *)
(* and the frame orchestrator, translated from src/unnamed/part_001.       *)
(*                                                                         *)
(* Go's int division truncates toward zero (GoDiv); float32 values are     *)
(* integers counted in units of 2^-29 (rotation: 2^-24) and every float32  *)
(* operation rounds to 24 significant bits, ties to even (F32Round).       *)
(***************************************************************************)
EXTENDS Integers, Sequences, FiniteSets, TLC

VARIABLES
    game,        \* the current *game instance (gameFrame.game)
    levelIndex,  \* gameFrame.levelIndex
    won,         \* gameFrame.won
    screen,      \* gameFrame.screenW, gameFrame.screenH
    ticks,       \* history: frames run by the current game instance
    last,        \* history: the last operation and what it did
    batch,       \* history: the event list of the last logged tick
    call         \* the pure-function specifications' call and result

vars == <<game, levelIndex, won, screen, ticks, last, batch, call>>

-----------------------------------------------------------------------------
(* Arithmetic of the Go build.                                             *)

Abs(a) == IF a < 0 THEN -a ELSE a

Sign(a) == IF a < 0 THEN -1 ELSE IF a > 0 THEN 1 ELSE 0

MaxOf(S) == CHOOSE a \in S : \A b \in S : b <= a

MinOf(S) == CHOOSE a \in S : \A b \in S : a <= b

\* Go's a / b on ints, b > 0: the quotient truncated toward zero.
GoDiv(a, b) == IF a >= 0 THEN a \div b ELSE -((-a) \div b)

\* 2^24: a float32 holds 24 significant bits.
F32Mantissa == 16777216

RECURSIVE F32Ulp(_, _)
\* The spacing of the float32 values around magnitude a (in a's own unit).
F32Ulp(a, p) == IF a \div p < F32Mantissa THEN p ELSE F32Ulp(a, 2 * p)

\* q + r/p rounded to the nearest integer, ties to the even one.
F32Nearest(q, r, p) ==
    IF 2 * r > p \/ (2 * r = p /\ q % 2 = 1) THEN q + 1 ELSE q

F32RoundTo(v, p) == Sign(v) * F32Nearest(Abs(v) \div p, Abs(v) % p, p) * p

\* The float32 nearest to v, ties to the even mantissa.
F32Round(v) == F32RoundTo(v, F32Ulp(Abs(v), 1))

F32Add(x, y) == F32Round(x + y)

\* float32 1.0 in units of 2^-29.
F32One == 536870912

\* Go's int(x) of a float32 x: truncation toward zero.
F32ToInt(x) == GoDiv(x, F32One)

-----------------------------------------------------------------------------
(* Rectangle                                                               *)

Rect(x, y, w, h) == [X |-> x, Y |-> y, W |-> w, H |-> h]

\* An overlap test that counts rectangles touching along an edge.
overlapsTouching(r, s) ==
    /\ r.X + r.W >= s.X
    /\ r.Y + r.H >= s.Y
    /\ s.X + s.W >= r.X
    /\ s.Y + s.H >= r.Y

overlaps(r, s) ==
    /\ r.X + r.W > s.X
    /\ r.Y + r.H > s.Y
    /\ s.X + s.W > r.X
    /\ s.Y + s.H > r.Y

-----------------------------------------------------------------------------
(* tileMap: width, height, tileW, tileH and the row-major tiles array      *)
(* (here: each tile's isSolid, indexed from 0).                            *)

toTileX(m, worldX) == GoDiv(worldX, m.tileW)

toTileY(m, worldY) == GoDiv(worldY, m.tileH)

toWorldX(m, tileX) == tileX * m.tileW

toWorldY(m, tileY) == tileY * m.tileH

worldSize(m) == <<m.width * m.tileW, m.height * m.tileH>>

\* A look-up that tests the array index where the code tests the coordinates.
tileAtByIndex(m, tileX, tileY) ==
    IF tileX + tileY * m.width \in DOMAIN m.tiles
    THEN [isSolid |-> m.tiles[tileX + tileY * m.width],
          read |-> {tileX + tileY * m.width}]
    ELSE [isSolid |-> FALSE, read |-> {}]

\* The tile returned, with the indices of m.tiles the call reads (none for
\* the fresh &tile{} of a query outside the grid).
tileAt(m, tileX, tileY) ==
    IF tileX < 0 \/ tileY < 0 \/ tileX >= m.width \/ tileY >= m.height
    THEN [isSolid |-> FALSE, read |-> {}]
    ELSE [isSolid |-> m.tiles[tileX + tileY * m.width],
          read |-> {tileX + tileY * m.width}]

\* The tiles the two nested loops of a sweep visit for the swept rectangle r
\* and find solid.
SweptTiles(m, r) ==
    (toTileX(m, r.X) .. toTileX(m, r.X + r.W - 1))
        \X (toTileY(m, r.Y) .. toTileY(m, r.Y + r.H - 1))

SweptSolid(m, r) == {t \in SweptTiles(m, r) : tileAt(m, t[1], t[2]).isSolid}

\* The swept rectangle r of a move by d < 0, resp. d > 0, on X and on Y.
sweptLeft(start, dx) == [start EXCEPT !.X = start.X + dx, !.W = start.W - dx]
sweptRight(start, dx) == [start EXCEPT !.W = start.W + dx]
sweptDown(start, dy) == [start EXCEPT !.Y = start.Y + dy, !.H = start.H - dy]
sweptUp(start, dy) == [start EXCEPT !.H = start.H + dy]

\* newX, newRight, newY and newBottom when the loops over the tiles end.
tileNewX(m, r) ==
    MaxOf({r.X} \cup {toWorldX(m, t[1] + 1) : t \in SweptSolid(m, r)})
\* A sweep to the right that stops at the farthest solid tile found.
tileNewRightFarthest(m, r) ==
    MaxOf({toWorldX(m, t[1]) - 1 : t \in SweptSolid(m, r)} \cup
          {n \in {r.X + r.W - 1} : SweptSolid(m, r) = {}})
tileNewRight(m, r) ==
    MinOf({r.X + r.W - 1} \cup {toWorldX(m, t[1]) - 1 : t \in SweptSolid(m, r)})
tileNewY(m, r) ==
    MaxOf({r.Y} \cup {toWorldY(m, t[2] + 1) : t \in SweptSolid(m, r)})
tileNewBottom(m, r) ==
    MinOf({r.Y + r.H - 1} \cup {toWorldY(m, t[2]) - 1 : t \in SweptSolid(m, r)})

\* The results of a sweep from its swept rectangle r and the edge found.
movedLeft(start, r, newX) == [d |-> newX - start.X, hit |-> newX # r.X]
\* A sweep to the right that reports a wall when its edge has left the start
\* rectangle's.
movedRightFromStart(start, r, newRight) ==
    [d |-> (newRight - start.W + 1) - start.X,
     hit |-> newRight # start.X + start.W - 1]
movedRight(start, r, newRight) ==
    [d |-> (newRight - start.W + 1) - start.X, hit |-> newRight # r.X + r.W - 1]
movedDown(start, r, newY) == [d |-> newY - start.Y, hit |-> newY # r.Y]
movedUp(start, r, newBottom) ==
    [d |-> (newBottom - start.H + 1) - start.Y, hit |-> newBottom # r.Y + r.H - 1]

\* [d |-> realDx, hit |-> hitWall]
moveInX(m, start, dx) ==
    IF dx < 0
    THEN movedLeft(start, sweptLeft(start, dx), tileNewX(m, sweptLeft(start, dx)))
    ELSE IF dx > 0
    THEN movedRight(start, sweptRight(start, dx),
                    tileNewRight(m, sweptRight(start, dx)))
    ELSE [d |-> 0, hit |-> FALSE]

\* [d |-> realDy, hit |-> hitWall]
moveInY(m, start, dy) ==
    IF dy < 0
    THEN movedDown(start, sweptDown(start, dy), tileNewY(m, sweptDown(start, dy)))
    ELSE IF dy > 0
    THEN movedUp(start, sweptUp(start, dy), tileNewBottom(m, sweptUp(start, dy)))
    ELSE [d |-> 0, hit |-> FALSE]

\* The tiles moveInX and moveInY pass to tileAt.
examinedInX(m, start, dx) ==
    IF dx < 0 THEN SweptTiles(m, sweptLeft(start, dx))
    ELSE IF dx > 0 THEN SweptTiles(m, sweptRight(start, dx))
    ELSE {}
examinedInY(m, start, dy) ==
    IF dy < 0 THEN SweptTiles(m, sweptDown(start, dy))
    ELSE IF dy > 0 THEN SweptTiles(m, sweptUp(start, dy))
    ELSE {}

\* Whether rectangle r overlaps some solid tile of m (the tile's world
\* rectangle, by Rectangle.overlaps).
OverlapsSolid(m, r) ==
    \E tx \in 0 .. m.width - 1, ty \in 0 .. m.height - 1 :
        /\ m.tiles[tx + ty * m.width]
        /\ overlaps(r, Rect(toWorldX(m, tx), toWorldY(m, ty), m.tileW, m.tileH))

-----------------------------------------------------------------------------
(* The decoded inputs of the core: info.json, the image sizes and the      *)
(* levels.  Level 0 has its player next to a rock resting on the floor, a  *)
(* second rock spawned in the air, and a left-facing gate whose trigger    *)
(* band starts three steps to the player's right; level 1 spawns the       *)
(* player inside the band of a right-facing gate.  Row 0 is the floor.     *)

Info == [CavemanHitBox |-> Rect(6, 0, 8, 12),
         RockHitBox |-> Rect(4, 0, 8, 8),
         LevelCount |-> 2]

\* Image.Size() of caveman_stand_left and of gate_a.
Assets == [cavemanW |-> 12, cavemanH |-> 14, gateW |-> 16]

Levels ==
    <<[width |-> 10, height |-> 3, tileW |-> 16, tileH |-> 16,
       tiles |-> [i \in 0 .. 29 |-> i < 10],
       player |-> <<1, 1>>, playerFacesRight |-> TRUE,
       gate |-> <<9, 1>>, gateFacesRight |-> FALSE,
       rocks |-> <<<<5, 2>>, <<0, 1>>>>],
      [width |-> 10, height |-> 3, tileW |-> 16, tileH |-> 16,
       tiles |-> [i \in 0 .. 29 |-> i < 10],
       player |-> <<3, 1>>, playerFacesRight |-> FALSE,
       gate |-> <<0, 1>>, gateFacesRight |-> TRUE,
       rocks |-> <<<<6, 1>>>>]>>

-----------------------------------------------------------------------------
(* Input events                                                            *)

KeyLeft == 1
KeyRight == 2
KeyUp == 3
KeyRestart == 4

Keys == {KeyLeft, KeyRight, KeyUp, KeyRestart}

InputEvent == [Down : BOOLEAN, Key : Keys]

-----------------------------------------------------------------------------
(* camera                                                                  *)

\* The two clamps of one axis without the centring of a smaller world.
clampOffsetUncentred(offset, screenLen, worldLen) ==
    IF (IF offset > 0 THEN 0 ELSE offset) < -(worldLen - screenLen)
    THEN -(worldLen - screenLen)
    ELSE IF offset > 0 THEN 0 ELSE offset

\* The two clamps of one axis, then the centring of a world smaller than
\* the screen.
clampOffset(offset, screenLen, worldLen) ==
    IF worldLen < screenLen THEN GoDiv(screenLen - worldLen, 2)
    ELSE IF (IF offset > 0 THEN 0 ELSE offset) < -(worldLen - screenLen)
    THEN -(worldLen - screenLen)
    ELSE IF offset > 0 THEN 0 ELSE offset

centerAround(c, x, y) ==
    [c EXCEPT !.offsetX = clampOffset(GoDiv(c.screenW, 2) - x, c.screenW, c.worldW),
              !.offsetY = clampOffset(GoDiv(c.screenH, 2) - y, c.screenH, c.worldH)]

-----------------------------------------------------------------------------
(* rock: the embedded Rectangle, speedX (float32), speedY, rotation        *)
(* (float32, units of 2^-24).                                              *)

\* float32(0.05), float32(0.025), float32(3), float32(0.5) in units of 2^-29.
PushAcceleration == 26843546
xGravity == 13421773
MaxRockSpeed == 1610612736
F32Half == 268435456
\* float32(0.667) in units of 2^-24.
RotationFactor == 11190403

\* A push that is clamped at the upper limit only.
clampSpeedAbove(s) == IF s > MaxRockSpeed THEN MaxRockSpeed ELSE s

\* The two clamps at the end of rock.push.
clampSpeed(s) ==
    IF s > MaxRockSpeed THEN MaxRockSpeed
    ELSE IF s < -MaxRockSpeed THEN -MaxRockSpeed
    ELSE s

\* A push that adds no more than friction takes.
pushWeak(r, xDir) ==
    [r EXCEPT !.speedX = clampSpeed(F32Add(@, IF xDir < 0 THEN -xGravity
                                              ELSE xGravity))]

\* rock.push(xDir)
push(r, xDir) ==
    [r EXCEPT !.speedX = clampSpeed(F32Add(@, IF xDir < 0 THEN -PushAcceleration
                                              ELSE PushAcceleration))]

\* speedX -= xGravity, resp. speedX += xGravity, clamped at zero.
slowedDown(s) == IF s < 0 THEN 0 ELSE s
slowedUp(s) == IF s > 0 THEN 0 ELSE s
frictionRight(s) == IF s > 0 THEN slowedDown(F32Add(s, -xGravity)) ELSE s
frictionLeft(s) == IF s < 0 THEN slowedUp(F32Add(s, xGravity)) ELSE s

\* A friction step that is not clamped at zero.
frictionPastZero(speedX) ==
    IF speedX > 0 THEN F32Add(speedX, -xGravity)
    ELSE IF speedX < 0 THEN F32Add(speedX, xGravity)
    ELSE speedX

\* The friction step at the head of rock.update.
friction(speedX) == frictionLeft(frictionRight(speedX))

\* The closure round of rock.update.
round(x) ==
    IF x < 0 THEN F32ToInt(F32Add(x, -F32Half)) ELSE F32ToInt(F32Add(x, F32Half))

\* The closure overlapsOther of rock.update.
overlapsOther(others, myIndex, r) ==
    \E i \in 1 .. Len(others) : i # myIndex /\ overlaps(others[i], r)

RECURSIVE backoffX(_, _, _, _, _, _)
\* The de-penetration loop of rock.update on X: [r, d] when it ends.
backoffX(r, dx, backoff, caveman, others, myIndex) ==
    IF (overlaps(r, caveman) \/ overlapsOther(others, myIndex, r)) /\ dx # 0
    THEN backoffX([r EXCEPT !.X = r.X - backoff], dx - backoff, backoff,
                  caveman, others, myIndex)
    ELSE [r |-> r, d |-> dx]

\* A rock that keeps the whole displacement on Y whatever it has moved into.
backoffYNone(r, dy, backoff, caveman, others, myIndex) == [r |-> r, d |-> dy]

RECURSIVE backoffY(_, _, _, _, _, _)
backoffY(r, dy, backoff, caveman, others, myIndex) ==
    IF (overlaps(r, caveman) \/ overlapsOther(others, myIndex, r)) /\ dy # 0
    THEN backoffY([r EXCEPT !.Y = r.Y - backoff], dy - backoff, backoff,
                  caveman, others, myIndex)
    ELSE [r |-> r, d |-> dy]

\* A rock that loses its speed once it has turned.
committedXStopsTurned(b, hitWall) ==
    [b.r EXCEPT !.rotation = F32Add(@, F32Round(b.d * RotationFactor)),
                !.speedX = IF hitWall \/ b.r.rotation # 0 THEN 0 ELSE @]

\* rock.update after its de-penetration loop on X: the rotation, and the
\* speed zeroed by a wall.
committedX(b, hitWall) ==
    [b.r EXCEPT !.rotation = F32Add(@, F32Round(b.d * RotationFactor)),
                !.speedX = IF hitWall THEN 0 ELSE @]

\* rock.update from the tile sweep on X (mx) to the end of the X half.
movedX(r, mx, caveman, others, myIndex) ==
    committedX(backoffX([r EXCEPT !.X = r.X + mx.d], mx.d,
                        IF mx.d < 0 THEN -1 ELSE 1, caveman, others, myIndex),
               mx.hit)

updateX(r, m, caveman, others, myIndex) ==
    movedX(r, moveInX(m, r, round(r.speedX)), caveman, others, myIndex)

\* An end of the Y half that stops the rock on a hit of the map only.
committedYOnHit(b, hitMap) ==
    [b.r EXCEPT !.speedY = IF hitMap THEN 0 ELSE @]

\* The end of the Y half, from the de-penetration loop's [r, d].
committedY(b, hitMap) ==
    [b.r EXCEPT !.speedY = IF hitMap \/ b.d = 0 THEN 0 ELSE @]

movedY(r, my, caveman, others, myIndex) ==
    committedY(backoffY([r EXCEPT !.Y = r.Y + my.d], my.d,
                        IF my.d < 0 THEN -1 ELSE 1, caveman, others, myIndex),
               my.hit)

updateY(r, m, caveman, others, myIndex) ==
    movedY(r, moveInY(m, r, r.speedY), caveman, others, myIndex)

update(r, m, caveman, others, myIndex) ==
    updateY([updateX([r EXCEPT !.speedX = friction(@)],
                     m, caveman, others, myIndex) EXCEPT !.speedY = @ - 2],
            m, caveman, others, myIndex)

RECURSIVE updateRocks(_, _, _, _)
\* The loop of game.Frame over g.rocks: each rock is updated in place, in
\* index order, and sees the rocks before it already updated.
updateRocks(rocks, i, m, caveman) ==
    IF i > Len(rocks) THEN rocks
    ELSE updateRocks([rocks EXCEPT ![i] = update(rocks[i], m, caveman, rocks, i)],
                     i + 1, m, caveman)

-----------------------------------------------------------------------------
(* game: the object pass of the player                                     *)

RECURSIVE scanLeftAll(_, _, _, _, _)
\* A loop that takes every rock for one the swept rectangle overlaps.
scanLeftAll(rocks, i, r, newX, hit) ==
    IF i > Len(rocks) THEN [edge |-> newX, hit |-> hit]
    ELSE IF rocks[i].X + rocks[i].W > newX
    THEN scanLeftAll(rocks, i + 1, r, rocks[i].X + rocks[i].W, i)
    ELSE scanLeftAll(rocks, i + 1, r, newX, hit)

RECURSIVE scanLeft(_, _, _, _, _)
\* The loop of moveCavemanInX for dx < 0 from rock i on: [edge, hit].
scanLeft(rocks, i, r, newX, hit) ==
    IF i > Len(rocks) THEN [edge |-> newX, hit |-> hit]
    ELSE LET bounds == rocks[i]
             right == bounds.X + bounds.W
         IN  IF overlaps(r, bounds) /\ right > newX
             THEN scanLeft(rocks, i + 1, r, right, i)
             ELSE scanLeft(rocks, i + 1, r, newX, hit)

RECURSIVE scanRightUnnamed(_, _, _, _, _)
\* A loop that tightens the bound and does not keep the rock.
scanRightUnnamed(rocks, i, r, newRight, hit) ==
    IF i > Len(rocks) THEN [edge |-> newRight, hit |-> hit]
    ELSE IF overlaps(r, rocks[i]) /\ rocks[i].X - 1 < newRight
    THEN scanRightUnnamed(rocks, i + 1, r, rocks[i].X - 1, hit)
    ELSE scanRightUnnamed(rocks, i + 1, r, newRight, hit)

RECURSIVE scanRight(_, _, _, _, _)
\* The loop over g.rocks of a move to the right, from rock i on.
scanRight(rocks, i, r, newRight, hit) ==
    IF i > Len(rocks) THEN [edge |-> newRight, hit |-> hit]
    ELSE LET bounds == rocks[i]
             left == bounds.X - 1
         IN  IF overlaps(r, bounds) /\ left < newRight
             THEN scanRight(rocks, i + 1, r, left, i)
             ELSE scanRight(rocks, i + 1, r, newRight, hit)

\* [d |-> realDx, hitObject, hit |-> the index of the rock returned (0: nil)]
cavemanMovedLeft(start, r, s) ==
    [d |-> s.edge - start.X, hitObject |-> s.edge # r.X, hit |-> s.hit]
cavemanMovedRight(start, r, s) ==
    [d |-> (s.edge - start.W + 1) - start.X,
     hitObject |-> s.edge # r.X + r.W - 1, hit |-> s.hit]

moveCavemanInX(rocks, start, dx) ==
    IF dx < 0
    THEN cavemanMovedLeft(start, sweptLeft(start, dx),
                          scanLeft(rocks, 1, sweptLeft(start, dx),
                                   sweptLeft(start, dx).X, 0))
    ELSE IF dx > 0
    THEN cavemanMovedRight(start, sweptRight(start, dx),
                           scanRight(rocks, 1, sweptRight(start, dx),
                                     start.X + start.W + dx - 1, 0))
    ELSE [d |-> 0, hitObject |-> FALSE, hit |-> 0]

RECURSIVE scanDown(_, _, _, _)
scanDown(rocks, i, r, newY) ==
    IF i > Len(rocks) THEN newY
    ELSE LET bounds == rocks[i]
             bottom == bounds.Y + bounds.H
         IN  IF overlaps(r, bounds) /\ bottom > newY
             THEN scanDown(rocks, i + 1, r, bottom)
             ELSE scanDown(rocks, i + 1, r, newY)

RECURSIVE scanUp(_, _, _, _)
scanUp(rocks, i, r, newBottom) ==
    IF i > Len(rocks) THEN newBottom
    ELSE LET bounds == rocks[i]
             top == bounds.Y - 1
         IN  IF overlaps(r, bounds) /\ top < newBottom
             THEN scanUp(rocks, i + 1, r, top)
             ELSE scanUp(rocks, i + 1, r, newBottom)

\* [d |-> realDy, hitObject]
cavemanMovedDown(start, r, newY) ==
    [d |-> newY - start.Y, hitObject |-> newY # r.Y]
cavemanMovedUp(start, r, newBottom) ==
    [d |-> (newBottom - start.H + 1) - start.Y,
     hitObject |-> newBottom # r.Y + r.H - 1]

moveCavemanInY(rocks, start, dy) ==
    IF dy < 0
    THEN cavemanMovedDown(start, sweptDown(start, dy),
                          scanDown(rocks, 1, sweptDown(start, dy),
                                   sweptDown(start, dy).Y))
    ELSE IF dy > 0
    THEN cavemanMovedUp(start, sweptUp(start, dy),
                        scanUp(rocks, 1, sweptUp(start, dy),
                               start.Y + start.H + dy - 1))
    ELSE [d |-> 0, hitObject |-> FALSE]

-----------------------------------------------------------------------------
(* game: construction                                                      *)

\* float32(0.02) and float32(0.0077) in units of 2^-29.
GateGlowDelta == 10737418
cloudSpeed == 4133906

\* The player's constants of game.Frame.
speed == 7
JumpSpeed == 20
MinSpeedY == -14
PushFrames == 4
WalkFrames == 4
PushFrameTicks == 10
WalkFrameTicks == 7

\* game.init for the decoded level lv, on the game{gateGlowDelta: 0.02} that
\* newGame allocates: every other field has Go's zero value.
init(info, lv) ==
    [camera |-> [offsetX |-> 0, offsetY |-> 0, screenW |-> 0, screenH |-> 0,
                 worldW |-> lv.width * lv.tileW, worldH |-> lv.height * lv.tileH],
     levelDone |-> FALSE, enteringGate |-> FALSE, cloudDisappearing |-> FALSE,
     exitGlow |-> 0,
     gateGlowRatio |-> 0, gateGlowDelta |-> GateGlowDelta,
     pushFrameIndex |-> 0, nextPushFrameChange |-> 0,
     cavemanX |-> lv.player[1] * lv.tileW, cavemanY |-> lv.player[2] * lv.tileH,
     cavemanSpeedY |-> 0, cavemanIsOnGround |-> FALSE,
     cavemanFacesRight |-> lv.playerFacesRight,
     cavemanHitBox |-> info.CavemanHitBox, rockHitBox |-> info.RockHitBox,
     walkFrameIndex |-> 0, nextWalkFrameChange |-> 0,
     exitX |-> lv.gate[1] * lv.tileW, exitY |-> lv.gate[2] * lv.tileH,
     exitFacesRight |-> lv.gateFacesRight,
     rocks |-> [i \in 1 .. Len(lv.rocks) |->
                  [X |-> lv.rocks[i][1] * lv.tileW + info.RockHitBox.X,
                   Y |-> lv.rocks[i][2] * lv.tileH + info.RockHitBox.Y,
                   W |-> info.RockHitBox.W, H |-> info.RockHitBox.H,
                   speedX |-> 0, speedY |-> 0, rotation |-> 0]],
     leftDown |-> FALSE, rightDown |-> FALSE, upDown |-> FALSE,
     tileMap |-> [width |-> lv.width, height |-> lv.height,
                  tileW |-> lv.tileW, tileH |-> lv.tileH, tiles |-> lv.tiles]]

SetScreenSize(g, width, height) ==
    [g EXCEPT !.camera.screenW = width, !.camera.screenH = height]

levelFinished(g) == g.levelDone

-----------------------------------------------------------------------------
(* game.Frame, in the order of its statements                              *)

applyEvent(g, e) ==
    IF e.Key = KeyLeft THEN [g EXCEPT !.leftDown = e.Down]
    ELSE IF e.Key = KeyRight THEN [g EXCEPT !.rightDown = e.Down]
    ELSE IF e.Key = KeyUp THEN [g EXCEPT !.upDown = e.Down]
    ELSE g

RECURSIVE handleEventsBackwards(_, _)
\* An event loop that applies the events from the last to the first.
handleEventsBackwards(g, events) ==
    IF events = <<>> THEN g
    ELSE applyEvent(handleEventsBackwards(g, Tail(events)), Head(events))

RECURSIVE handleEvents(_, _)
\* The event loop: the events applied in list order.
handleEvents(g, events) ==
    IF events = <<>> THEN g
    ELSE handleEvents(applyEvent(g, Head(events)), Tail(events))

\* A frame that keeps the keys during the gate sequence.
discardInputNever(g) == g

\* The keys are released for as long as the gate sequence runs.
discardInput(g) ==
    IF g.enteringGate
    THEN [g EXCEPT !.leftDown = FALSE, !.rightDown = FALSE, !.upDown = FALSE]
    ELSE g

cavemanBounds(g) ==
    Rect(g.cavemanX + g.cavemanHitBox.X, g.cavemanY + g.cavemanHitBox.Y,
         g.cavemanHitBox.W, g.cavemanHitBox.H)

stepRocks(g) ==
    [g EXCEPT !.rocks = updateRocks(g.rocks, 1, g.tileMap, cavemanBounds(g))]

\* cavemanDx, and the speed of the vertical pass: the jump impulse, gravity
\* and the terminal speed.
\* A request that goes left whenever Left is held.
requestedDxLeftFirst(g) ==
    IF g.leftDown THEN -speed
    ELSE IF g.rightDown THEN speed
    ELSE 0

requestedDx(g) ==
    IF g.leftDown /\ ~g.rightDown THEN -speed
    ELSE IF g.rightDown /\ ~g.leftDown THEN speed
    ELSE 0

fallSpeed(speedY) == IF speedY - 1 < MinSpeedY THEN MinSpeedY ELSE speedY - 1

\* A jump that needs no ground.
startSpeedYInAir(g) == fallSpeed(IF g.upDown THEN JumpSpeed ELSE g.cavemanSpeedY)

startSpeedY(g) ==
    fallSpeed(IF g.cavemanIsOnGround /\ g.upDown THEN JumpSpeed ELSE g.cavemanSpeedY)

\* A player that any blocked vertical pass puts on the ground.
cavemanLandedAnyway(g, rect, ty, oy) ==
    [g EXCEPT !.cavemanIsOnGround = ty.hit \/ oy.hitObject,
              !.cavemanX = rect.X - g.cavemanHitBox.X,
              !.cavemanY = (rect.Y + oy.d) - g.cavemanHitBox.Y]

\* The end of the player's step, from the two vertical passes ty and oy:
\* grounded when blocked going down, stopped when blocked going up.
cavemanLanded(g, rect, ty, oy) ==
    [g EXCEPT !.cavemanIsOnGround = (ty.hit \/ oy.hitObject) /\ g.cavemanSpeedY < 0,
              !.cavemanSpeedY = IF (ty.hit \/ oy.hitObject) /\ ~(g.cavemanSpeedY < 0)
                                THEN 0 ELSE @,
              !.cavemanX = rect.X - g.cavemanHitBox.X,
              !.cavemanY = (rect.Y + oy.d) - g.cavemanHitBox.Y]

cavemanPassY(g, rect, ty) ==
    cavemanLanded(g, rect, ty, moveCavemanInY(g.rocks, rect, ty.d))

\* The vertical half, for the rectangle rect already moved on X.
cavemanMoveY(g, rect) ==
    cavemanPassY(g, rect, moveInY(g.tileMap, rect, g.cavemanSpeedY))

\* A player that pushes the rock in its way also when it is in the air.
cavemanPushedInAir(g, rect, tx, ox) ==
    [g |-> cavemanMoveY(
               [g EXCEPT !.rocks = IF ox.hitObject
                                   THEN [@ EXCEPT ![ox.hit] = push(@, tx.d)]
                                   ELSE @,
                         !.cavemanSpeedY = startSpeedY(g)],
               [rect EXCEPT !.X = @ + ox.d]),
     pushed |-> IF ox.hitObject THEN ox.hit ELSE 0]

\* The horizontal half from the tile pass tx and the rock pass ox on: the
\* push, then the vertical half.  [g, pushed]
cavemanPushed(g, rect, tx, ox) ==
    [g |-> cavemanMoveY(
               [g EXCEPT !.rocks = IF ox.hitObject /\ g.cavemanIsOnGround
                                   THEN [@ EXCEPT ![ox.hit] = push(@, tx.d)]
                                   ELSE @,
                         !.cavemanSpeedY = startSpeedY(g)],
               [rect EXCEPT !.X = @ + ox.d]),
     pushed |-> IF ox.hitObject /\ g.cavemanIsOnGround THEN ox.hit ELSE 0]

cavemanPassX(g, rect, tx) ==
    cavemanPushed(g, rect, tx,
                  IF tx.d # 0 THEN moveCavemanInX(g.rocks, rect, tx.d)
                  ELSE [d |-> 0, hitObject |-> FALSE, hit |-> 0])

\* The player's step: [g, pushed] with pushed the index of the rock pushed
\* (0: none).
stepCaveman(g) ==
    cavemanPassX([g EXCEPT !.cavemanFacesRight =
                      IF g.leftDown = g.rightDown THEN @ ELSE g.rightDown],
                 cavemanBounds(g),
                 moveInX(g.tileMap, cavemanBounds(g), requestedDx(g)))

\* The band the player's centre must be in, and the exit trigger.
exitMinX(g) == IF g.exitFacesRight THEN g.exitX + Assets.gateW + 20 ELSE g.exitX - 100
exitMaxX(g) == IF g.exitFacesRight THEN g.exitX + Assets.gateW + 100 ELSE g.exitX - 20

\* An exit trigger that fires on every frame the player stands in the zone.
atExitEveryFrame(g, cavemanRect) ==
    /\ cavemanRect.Y = g.exitY
    /\ cavemanRect.X + GoDiv(cavemanRect.W, 2) > exitMinX(g)
    /\ cavemanRect.X + GoDiv(cavemanRect.W, 2) < exitMaxX(g)

atExit(g, cavemanRect) ==
    /\ ~g.enteringGate
    /\ cavemanRect.Y = g.exitY
    /\ cavemanRect.X + GoDiv(cavemanRect.W, 2) > exitMinX(g)
    /\ cavemanRect.X + GoDiv(cavemanRect.W, 2) < exitMaxX(g)

\* [g, played] with played the number of cloudSound.Play() calls.
enterGate(g) ==
    IF atExit(g, cavemanBounds(g))
    THEN [g |-> [g EXCEPT !.enteringGate = TRUE], played |-> 1]
    ELSE [g |-> g, played |-> 0]

\* A camera that follows, with the vertical speed of a grounded player kept.
followCavemanFalling(g) ==
    [g EXCEPT !.camera = centerAround(g.camera,
                                      g.cavemanX + GoDiv(Assets.cavemanW, 2),
                                      g.cavemanY + GoDiv(Assets.cavemanH, 2))]

\* The camera follows, and a grounded player has no vertical speed.
followCaveman(g) ==
    [g EXCEPT !.camera = centerAround(g.camera,
                                      g.cavemanX + GoDiv(Assets.cavemanW, 2),
                                      g.cavemanY + GoDiv(Assets.cavemanH, 2)),
              !.cavemanSpeedY = IF g.cavemanIsOnGround THEN 0 ELSE @]

\* A glow that is clamped at the two bounds and keeps its direction.
glowBouncedNoFlip(g, r) ==
    IF r < 0 THEN [g EXCEPT !.gateGlowRatio = 0]
    ELSE IF r > F32One THEN [g EXCEPT !.gateGlowRatio = F32One]
    ELSE [g EXCEPT !.gateGlowRatio = r]

\* The ratio r just advanced by the step delta: the two bounds.
glowBounced(g, r) ==
    IF r < 0 THEN [g EXCEPT !.gateGlowRatio = 0, !.gateGlowDelta = -@]
    ELSE IF r > F32One THEN [g EXCEPT !.gateGlowRatio = F32One, !.gateGlowDelta = -@]
    ELSE [g EXCEPT !.gateGlowRatio = r]

\* The glow at rest while the gate sequence runs.
stepGateGlowIdleOnly(g) ==
    IF g.enteringGate THEN g
    ELSE glowBounced(g, F32Add(g.gateGlowRatio, g.gateGlowDelta))

stepGateGlow(g) == glowBounced(g, F32Add(g.gateGlowRatio, g.gateGlowDelta))

nextFrameTick(t, period) == IF t + 1 > period THEN 0 ELSE t + 1
nextFrameIndex(i, t, period, n) == IF t + 1 > period THEN (i + 1) % n ELSE i

stepAnimation(g) ==
    [g EXCEPT
        !.nextPushFrameChange = nextFrameTick(@, PushFrameTicks),
        !.pushFrameIndex =
            nextFrameIndex(@, g.nextPushFrameChange, PushFrameTicks, PushFrames),
        !.nextWalkFrameChange = nextFrameTick(@, WalkFrameTicks),
        !.walkFrameIndex =
            nextFrameIndex(@, g.nextWalkFrameChange, WalkFrameTicks, WalkFrames)]

\* A cloud that turns at 1 without being clamped to it.
cloudGrownUnclamped(g, e) ==
    IF e > F32One THEN [g EXCEPT !.exitGlow = e, !.cloudDisappearing = TRUE]
    ELSE [g EXCEPT !.exitGlow = e]

\* The cloud of the gate sequence, from exitGlow e just advanced.
cloudGrown(g, e) ==
    IF e > F32One THEN [g EXCEPT !.exitGlow = F32One, !.cloudDisappearing = TRUE]
    ELSE [g EXCEPT !.exitGlow = e]
\* A cloud that leaves the gate sequence when it has disappeared.
cloudShrunkLeaving(g, e) ==
    IF e < 0 THEN [g EXCEPT !.exitGlow = 0, !.levelDone = TRUE, !.enteringGate = FALSE]
    ELSE [g EXCEPT !.exitGlow = e]
cloudShrunk(g, e) ==
    IF e < 0 THEN [g EXCEPT !.exitGlow = 0, !.levelDone = TRUE]
    ELSE [g EXCEPT !.exitGlow = e]

\* A cloud that never turns to disappear.
stepExitGlowGrowOnly(g) ==
    IF ~g.enteringGate THEN g
    ELSE cloudGrown(g, F32Add(g.exitGlow, cloudSpeed))

\* The exit's cloud, lines 657-671: it appears, turns at 1 and disappears.
stepExitGlow(g) ==
    IF ~g.enteringGate THEN g
    ELSE IF ~g.cloudDisappearing THEN cloudGrown(g, F32Add(g.exitGlow, cloudSpeed))
    ELSE cloudShrunk(g, F32Add(g.exitGlow, -cloudSpeed))

\* game.Frame from the exit trigger on.
frameEnd(x, pushed) ==
    [g |-> stepExitGlow(stepAnimation(stepGateGlow(followCaveman(x.g)))),
     played |-> x.played, pushed |-> pushed]

frameAfterCaveman(c) == frameEnd(enterGate(c.g), c.pushed)

\* game.Frame up to the rock loop: the event loop and the keys discarded.
frameInput(g, events) == discardInput(handleEvents(g, events))

\* A frame that moves the player before it updates the rocks.
frameFromInputPlayerFirst(g) ==
    frameAfterCaveman([stepCaveman(g) EXCEPT !.g = stepRocks(@)])

\* game.Frame from the rock loop on: [g, played, pushed].
frameFromInput(g) == frameAfterCaveman(stepCaveman(stepRocks(g)))

\* game.Frame: [g, played, pushed].
Frame(g, events) == frameFromInput(frameInput(g, events))

-----------------------------------------------------------------------------
(* gameFrame                                                               *)

\* gameFrame.newGame: a fresh game for the level levelIndex names.
newGame(index) == init(Info, Levels[index + 1])

\* A Restart scan that takes a press of the key as well.
restartPressed(events) ==
    \E i \in 1 .. Len(events) : events[i].Key = KeyRestart

\* Whether the list holds a release of the Restart key.
restartReleased(events) ==
    \E i \in 1 .. Len(events) : events[i].Key = KeyRestart /\ ~events[i].Down

\* An end of gameFrame.Frame that counts the level up and loads the level
\* it had.
frameFinishedSameLevel(c, r) ==
    [game |-> IF levelFinished(r.g) /\ c.levelIndex + 1 < Info.LevelCount
              THEN newGame(c.levelIndex) ELSE r.g,
     levelIndex |-> IF levelFinished(r.g) THEN c.levelIndex + 1 ELSE c.levelIndex,
     won |-> levelFinished(r.g) /\ c.levelIndex + 1 >= Info.LevelCount,
     restarted |-> c.restarted, stepped |-> TRUE,
     advanced |-> levelFinished(r.g) /\ c.levelIndex + 1 < Info.LevelCount,
     played |-> r.played, pushed |-> r.pushed]

\* The end of gameFrame.Frame, after game.Frame returned r.
frameFinished(c, r) ==
    [game |-> IF levelFinished(r.g) /\ c.levelIndex + 1 < Info.LevelCount
              THEN newGame(c.levelIndex + 1) ELSE r.g,
     levelIndex |-> IF levelFinished(r.g) THEN c.levelIndex + 1 ELSE c.levelIndex,
     won |-> levelFinished(r.g) /\ c.levelIndex + 1 >= Info.LevelCount,
     restarted |-> c.restarted, stepped |-> TRUE,
     advanced |-> levelFinished(r.g) /\ c.levelIndex + 1 < Info.LevelCount,
     played |-> r.played, pushed |-> r.pushed]

\* A Restart that drops the events and keeps the game it has.
restartedGameKept(f) == f.game

\* The game a Restart of a game not won goes on with: newGame's.
restartedGame(f) == newGame(f.levelIndex)

\* gameFrame.Frame on f = [game, levelIndex, won] up to the rock loop of
\* game.Frame: the win screen's Restart scan, or the Restart scan and the
\* event loop of game.Frame.  restarted: newGame ran for a Restart; stepped:
\* game.Frame is running.
gameFrameInput(f, events) ==
    IF f.won THEN
        IF restartReleased(events)
        THEN [game |-> newGame(0), levelIndex |-> 0, won |-> FALSE,
              restarted |-> TRUE, stepped |-> FALSE]
        ELSE [game |-> f.game, levelIndex |-> f.levelIndex, won |-> TRUE,
              restarted |-> FALSE, stepped |-> FALSE]
    ELSE IF restartReleased(events)
    THEN [game |-> frameInput(restartedGame(f), <<>>),
          levelIndex |-> f.levelIndex, won |-> FALSE,
          restarted |-> TRUE, stepped |-> TRUE]
    ELSE [game |-> frameInput(f.game, events),
          levelIndex |-> f.levelIndex, won |-> FALSE,
          restarted |-> FALSE, stepped |-> TRUE]

\* gameFrame.Frame from there on: the new f, with advanced (newGame ran for
\* the next level) and game.Frame's outputs.
gameFrameRest(c) ==
    IF c.stepped THEN frameFinished(c, frameFromInput(c.game))
    ELSE [game |-> c.game, levelIndex |-> c.levelIndex, won |-> c.won,
          restarted |-> c.restarted, stepped |-> FALSE, advanced |-> FALSE,
          played |-> 0, pushed |-> 0]

gameFrameFrame(f, events) == gameFrameRest(gameFrameInput(f, events))

-----------------------------------------------------------------------------
(* The bounds of the model.                                                *)

\* Frames a game instance runs before its gate sequence has begun.
MaxTicks == 4
\* The longest event list of a tick.
MaxEvents == 2

EventLists(n) == UNION {[1 .. k -> InputEvent] : k \in 0 .. n}

\* The window sizes the platform layer reports.
ScreenSizes == {<<64, 40>>}

-----------------------------------------------------------------------------
(* The frame-stepped program: New, then SetScreenSize and Frame calls.     *)

NoCall == [fn |-> "none"]

\* What an operation that ran no frame leaves in last.
NoFrame == [restarted |-> FALSE, stepped |-> FALSE, advanced |-> FALSE,
            played |-> 0, pushed |-> 0]

Init ==
    /\ game = newGame(0)
    /\ levelIndex = 0
    /\ won = FALSE
    /\ screen = <<0, 0>>
    /\ ticks = 0
    /\ last = NoFrame
    /\ batch = <<>>
    /\ call = NoCall

\* What the event lists of a tick make of gameFrame f up to the rock loop.
FrameInputs(f) == {gameFrameInput(f, events) : events \in EventLists(MaxEvents)}

\* gameFrame.Frame(events), from c = gameFrameInput(f, events) on.
Tick(c) ==
    /\ won \/ ticks < MaxTicks \/ game.enteringGate \/ c.restarted
    /\ \E f \in {gameFrameRest(c)} :
           /\ game' = f.game
           /\ levelIndex' = f.levelIndex
           /\ won' = f.won
           /\ ticks' = IF f.advanced THEN 0
                       ELSE IF f.restarted THEN (IF f.stepped THEN 1 ELSE 0)
                       ELSE IF f.stepped THEN ticks + 1
                       ELSE ticks
           /\ last' = [restarted |-> f.restarted, stepped |-> f.stepped,
                       advanced |-> f.advanced,
                       played |-> f.played, pushed |-> f.pushed]
    /\ UNCHANGED <<screen, batch, call>>

FrameCall ==
    \E c \in FrameInputs([game |-> game, levelIndex |-> levelIndex, won |-> won]) :
        Tick(c)

\* gameFrame.SetScreenSize(width, height).
SetScreenSizeCall ==
    \E s \in ScreenSizes :
        /\ screen' = s
        /\ game' = SetScreenSize(game, s[1], s[2])
        /\ UNCHANGED <<levelIndex, won, ticks, last, batch, call>>

Next == FrameCall \/ SetScreenSizeCall

Spec == Init /\ [][Next]_vars

-----------------------------------------------------------------------------
(* The gate sequence                                                       *)

\* The event lists of Left, Right and Up events only.
MoveEventLists ==
    {ev \in EventLists(MaxEvents) :
        \A i \in 1 .. Len(ev) : ev[i].Key # KeyRestart}

SamePosition(g, h) == g.cavemanX = h.cavemanX /\ g.cavemanY = h.cavemanY

\* C3: once enteringGate is set, in every later frame of the level and for
\* every list of Left/Right/Up events, the frame leaves the player where
\* the frame with no events leaves it.
C3_GateIgnoresInput ==
    (game.enteringGate /\ ~won) =>
        \A g \in {frameInput(game, ev) : ev \in MoveEventLists} :
            SamePosition(frameFromInput(g).g, Frame(game, <<>>).g)

\* A frame of the gate sequence has run, and the same events move the player
\* where the keys are not discarded.
C3_Witness ==
    /\ game.enteringGate /\ ~won /\ last.stepped
    /\ game.exitGlow > cloudSpeed
    /\ \E ev \in MoveEventLists :
           ~SamePosition(stepCaveman(stepRocks(handleEvents(game, ev))).g,
                         Frame(game, <<>>).g)

\* One frame of the cloud, from g to n: exitGlow within [0, 1]; while the
\* cloud appears exitGlow does not fall, and the cloud turns only at 1; once
\* the cloud disappears exitGlow does not rise; the level is finished only
\* out of a disappearing cloud, at 0.
CloudStep(g, n) ==
    /\ n.exitGlow >= 0 /\ n.exitGlow <= F32One
    /\ ~n.cloudDisappearing => n.exitGlow >= g.exitGlow
    /\ (n.cloudDisappearing /\ ~g.cloudDisappearing) => n.exitGlow = F32One
    /\ g.cloudDisappearing => (n.cloudDisappearing /\ n.exitGlow <= g.exitGlow)
    /\ (levelFinished(n) /\ ~levelFinished(g)) =>
           (g.cloudDisappearing /\ n.exitGlow = 0)
    /\ (~levelFinished(n) /\ n.cloudDisappearing /\ n.exitGlow = 0) =>
           g.exitGlow > 0

\* C4: exitGlow stays within [0, 1] in every frame, and levelFinished() is
\* not true before exitGlow has risen, never falling, to 1 and then fallen,
\* never rising, to 0.
C4_ExitGlow ==
    /\ game.exitGlow >= 0 /\ game.exitGlow <= F32One
    /\ game.cloudDisappearing => game.enteringGate
    /\ (~game.enteringGate) => game.exitGlow = 0
    /\ levelFinished(game) => (game.cloudDisappearing /\ game.exitGlow = 0)
    /\ (~won) => \A g \in {frameInput(game, ev) : ev \in EventLists(MaxEvents)} :
                     CloudStep(game, frameFromInput(g).g)

\* The last level was finished: the cloud has been to 1 and back to 0.
C4_Witness == won /\ last.stepped /\ levelFinished(game) /\ game.exitGlow = 0

-----------------------------------------------------------------------------
(* Restart                                                                 *)

\* The positions of the player and of every rock.
Positions(g) ==
    [caveman |-> <<g.cavemanX, g.cavemanY>>,
     rocks |-> [i \in 1 .. Len(g.rocks) |-> <<g.rocks[i].X, g.rocks[i].Y>>]]

\* The tick that led here released Restart while the game was not won.
RestartedLevel == last.restarted /\ last.stepped

\* The game but for the screen size, which SetScreenSize sets.
SizeFree(g) == SetScreenSize(g, 0, 0)

\* C5 (as the code has it): after a tick whose events hold a release of the
\* Restart key the game is the level's freshly built game advanced by one
\* frame without events (on the win screen: level 0's freshly built game,
\* no frame run), whatever was played before, so that a Restart tick after a
\* Restart tick of the level leaves the state it found.
C5_Restart ==
    /\ [](RestartedLevel =>
             SizeFree(game) = Frame(init(Info, Levels[levelIndex + 1]), <<>>).g)
    /\ []((last.restarted /\ ~last.stepped) =>
             /\ SizeFree(game) = init(Info, Levels[1])
             /\ levelIndex = 0
             /\ ~won)
    /\ [][(RestartedLevel /\ last'.restarted) =>
             /\ SizeFree(game') = SizeFree(game)
             /\ levelIndex' = levelIndex
             /\ won' = won]_vars

\* A Restart of level 1, after level 0 was played to its end.
C5_Witness == RestartedLevel /\ levelIndex = 1 /\ ticks = 1

\* C5 as stated: after a Restart tick the player and every rock are at their
\* level-spawn positions.
C5_AsStated ==
    last.restarted => Positions(game) = Positions(init(Info, Levels[levelIndex + 1]))

-----------------------------------------------------------------------------
(* The gate glow                                                           *)

\* How far a float32 ratio may be from the decimal value it stands for:
\* 2^-16, in units of 2^-29.
Near(a, b) == Abs(a - b) <= 8192

\* The ratio the glow has after t frames of a game: up for 51 frames, the
\* last of them clamped to 1, and down for 51 frames, the last of them
\* clamped to 0.
GlowPhase(t) == t % 102

GlowAt(t) ==
    IF GlowPhase(t) <= 50 THEN GlowPhase(t) * GateGlowDelta
    ELSE F32One - (GlowPhase(t) - 51) * GateGlowDelta

\* C7 (as the code has it): from ratio 0 and step 0.02 the ratio stays in
\* [0, 1] and moves by the step each frame, up to float32 rounding; the
\* frame whose step would leave [0, 1] clamps the ratio to the bound and
\* flips the step's sign, so the ratio is about 1 after frame 50 and 1 after
\* frame 51, about 0 after frame 101 and 0 after frame 102, and repeats every
\* 102 frames.
C7_PingPong ==
    (~won) =>
        /\ game.gateGlowRatio >= 0 /\ game.gateGlowRatio <= F32One
        /\ Near(game.gateGlowRatio, GlowAt(ticks))
        /\ game.gateGlowDelta = (IF GlowPhase(ticks) <= 50 THEN GateGlowDelta
                                 ELSE -GateGlowDelta)
        /\ (GlowPhase(ticks) = 0) => (game.gateGlowRatio = 0)
        /\ (GlowPhase(ticks) = 51) => (game.gateGlowRatio = F32One)
        /\ (GlowPhase(ticks) \in {50, 101}) =>
               (game.gateGlowRatio > 0 /\ game.gateGlowRatio < F32One)

\* Two periods of the glow have run.
C7_Witness == ~won /\ ticks = 204 /\ game.gateGlowRatio = 0 /\ last.stepped

\* C7 as stated: one value per frame of 0, 0.02, ..., 1.0, 0.98, ..., 0,
\* repeating (every 100 frames).
C7_AsStated ==
    (~won) =>
        Near(game.gateGlowRatio,
             IF (ticks % 100) <= 50 THEN (ticks % 100) * GateGlowDelta
             ELSE (100 - (ticks % 100)) * GateGlowDelta)

-----------------------------------------------------------------------------
(* The tile sweeps on their own: tileMap.moveInX and tileMap.moveInY       *)
(* called once on a map, a rectangle and a displacement.                   *)

\* The program's variables while a function is called on its own.
Idle ==
    /\ game = newGame(0)
    /\ levelIndex = 0
    /\ won = FALSE
    /\ screen = <<0, 0>>
    /\ ticks = 0
    /\ last = NoFrame
    /\ batch = <<>>

IdleVars == <<game, levelIndex, won, screen, ticks, last, batch>>

\* The largest requested displacement of a sweep, and how far outside the
\* world a swept rectangle starts.
MaxSweep == 3
\* The largest side of a swept rectangle.
MaxSide == 2

\* Every solid-tile configuration of a map of 2 x 2 tiles of 2 x 2 pixels.
SmallMaps ==
    {[width |-> 2, height |-> 2, tileW |-> 2, tileH |-> 2, tiles |-> t] :
        t \in [0 .. 3 -> BOOLEAN]}

SmallSweeps ==
    {[m |-> m, start |-> Rect(x, y, w, h), d |-> d] :
        m \in SmallMaps,
        x \in -MaxSweep .. 4, y \in -MaxSweep .. 4,
        w \in 1 .. MaxSide, h \in 1 .. MaxSide,
        d \in -MaxSweep .. MaxSweep}

\* Maps of one and of two rows whose solid tiles cover world x in [10, 30)
\* of row 0, in tiles 10 and 5 wide, and the rectangle of width 16 at x = 0
\* on that row.
WideRow == [lo |-> 10, hi |-> 30, worldW |-> 40, x |-> 0, w |-> 16, d |-> 20]

WideMaps ==
    {[width |-> WideRow.worldW \div tw, height |-> rows, tileW |-> tw, tileH |-> 8,
      tiles |-> [i \in 0 .. (WideRow.worldW \div tw) * rows - 1 |->
                    /\ i < WideRow.worldW \div tw
                    /\ i * tw >= WideRow.lo
                    /\ i * tw < WideRow.hi]] :
        tw \in {5, 10}, rows \in {1, 2}}

WideSweeps ==
    {[m |-> m, start |-> Rect(WideRow.x, y, WideRow.w, h), d |-> d] :
        m \in WideMaps, y \in {0, 2}, h \in {4, 6},
        d \in {-WideRow.d, 0, WideRow.d}}

InitSweep ==
    /\ Idle
    /\ \E c \in SmallSweeps \cup WideSweeps :
           call = [fn |-> "sweep", m |-> c.m, start |-> c.start, d |-> c.d]

\* realDx, hitWall := m.moveInX(start, dx)
MoveInXCall ==
    /\ call.fn = "sweep"
    /\ call' = [call EXCEPT !.fn = "moveInX"] @@
               [out |-> moveInX(call.m, call.start, call.d),
                examined |-> examinedInX(call.m, call.start, call.d)]
    /\ UNCHANGED IdleVars

\* realDy, hitWall := m.moveInY(start, dy)
MoveInYCall ==
    /\ call.fn = "sweep"
    /\ call' = [call EXCEPT !.fn = "moveInY"] @@
               [out |-> moveInY(call.m, call.start, call.d),
                examined |-> examinedInY(call.m, call.start, call.d)]
    /\ UNCHANGED IdleVars

NextSweep == MoveInXCall \/ MoveInYCall

SpecSweep == InitSweep /\ [][NextSweep]_vars

\* The rectangle of a finished sweep, moved by the displacement returned.
SweepMoved ==
    IF call.fn = "moveInX" THEN [call.start EXCEPT !.X = @ + call.out.d]
    ELSE [call.start EXCEPT !.Y = @ + call.out.d]

SweepDone == call.fn \in {"moveInX", "moveInY"}

\* C1: after moveInX or moveInY, the rectangle moved by the displacement
\* returned overlaps no solid tile.  Stated here for the rectangles that
\* overlap no solid tile before the call, the case the claim's "every
\* rectangle" includes and a sweep is called for.
C1_MovedRectangleIsFree ==
    (SweepDone /\ ~OverlapsSolid(call.m, call.start))
        => ~OverlapsSolid(call.m, SweepMoved)

\* The solid tiles of m cover exactly world x in [WideRow.lo, WideRow.hi) on
\* every tile row the rectangle r spans.
CoversWideRow(m, r) ==
    \A x \in 0 .. m.width * m.tileW - 1 :
        \A ty \in toTileY(m, r.Y) .. toTileY(m, r.Y + r.H - 1) :
            tileAt(m, toTileX(m, x), ty).isSolid
                <=> (x >= WideRow.lo /\ x < WideRow.hi)

\* The call of C2: width 16 at x = 0, dx = +20, solid tiles over [10, 30).
TieBreakCall ==
    /\ call.fn = "moveInX"
    /\ call.start.X = WideRow.x
    /\ call.start.W = WideRow.w
    /\ call.d = WideRow.d
    /\ CoversWideRow(call.m, call.start)

\* C2 (as the code has it): for a rectangle of width 16 at x = 0 and solid
\* tiles covering world x in [10, 30) on the sweep row, moveInX with dx = +20
\* returns realDx = -6, which puts the rectangle's right edge at x = 9, one
\* pixel before the nearest solid tile, and hitWall = true.
C2_TieBreak ==
    TieBreakCall =>
        /\ call.out.d = -6
        /\ call.start.X + call.start.W - 1 + call.out.d = 9
        /\ call.out.hit

C2_Witness == TieBreakCall /\ call.out.hit

\* C2 as stated: the same call returns realDx = 9 and hitWall = true.
C2_AsStated == TieBreakCall => (call.out.d = 9 /\ call.out.hit)

-----------------------------------------------------------------------------
(* camera.centerAround on its own                                          *)

\* The largest world and screen extent of the small cameras.
MaxExtent == 4

\* The cameras and points of the worked examples: a world of 2000 x 1000 and
\* one of 400 x 300 on a screen of 800 x 600.
CameraExamples ==
    {[c |-> [offsetX |-> 0, offsetY |-> 0, screenW |-> 800, screenH |-> 600,
             worldW |-> w[1], worldH |-> w[2]],
      x |-> p[1], y |-> p[2]] :
        w \in {<<2000, 1000>>, <<400, 300>>},
        p \in {<<50, 50>>, <<1990, 990>>, <<400, 300>>, <<0, 0>>, <<-7, 1200>>}}

SmallCameras ==
    {[c |-> [offsetX |-> 0, offsetY |-> 0, screenW |-> sw, screenH |-> sh,
             worldW |-> ww, worldH |-> wh],
      x |-> x, y |-> y] :
        sw \in 0 .. MaxExtent, ww \in 0 .. MaxExtent, x \in -1 .. MaxExtent + 1,
        sh \in {1, MaxExtent}, wh \in {0, 2, MaxExtent + 1}, y \in {-1, 1, 3}}

InitCamera ==
    /\ Idle
    /\ \E i \in CameraExamples \cup SmallCameras :
           call = [fn |-> "camera", c |-> i.c, x |-> i.x, y |-> i.y]

\* c.centerAround(x, y)
CenterAroundCall ==
    /\ call.fn = "camera"
    /\ call' = [call EXCEPT !.fn = "centerAround"] @@
               [out |-> centerAround(call.c, call.x, call.y)]
    /\ UNCHANGED IdleVars

NextCamera == CenterAroundCall

SpecCamera == InitCamera /\ [][NextCamera]_vars

\* v clamped to [lo, hi], lo <= hi.
Clamped(v, lo, hi) == MaxOf({lo, MinOf({hi, v})})

\* The offset C8 states for one axis.
StatedOffset(point, screenLen, worldLen) ==
    IF worldLen < screenLen THEN (screenLen - worldLen) \div 2
    ELSE Clamped((screenLen \div 2) - point, -(worldLen - screenLen), 0)

\* C8: centerAround(x, y) yields, on each axis by itself, (screen - world)/2
\* when the world is smaller than the screen and otherwise screen/2 - point
\* clamped to [-(world - screen), 0]; a world of 2000 x 1000 on a screen of
\* 800 x 600 gives (0, 0) for (50, 50) and (-1200, -400) for (1990, 990), and
\* a world of 400 x 300 gives (200, 150) for every point.
C8_CenterAround ==
    call.fn = "centerAround" =>
        /\ call.out.offsetX = StatedOffset(call.x, call.c.screenW, call.c.worldW)
        /\ call.out.offsetY = StatedOffset(call.y, call.c.screenH, call.c.worldH)
        /\ (<<call.c.screenW, call.c.screenH>> = <<800, 600>>
              /\ <<call.c.worldW, call.c.worldH>> = <<2000, 1000>>) =>
               /\ <<call.x, call.y>> = <<50, 50>> =>
                      <<call.out.offsetX, call.out.offsetY>> = <<0, 0>>
               /\ <<call.x, call.y>> = <<1990, 990>> =>
                      <<call.out.offsetX, call.out.offsetY>> = <<-1200, -400>>
        /\ (<<call.c.screenW, call.c.screenH>> = <<800, 600>>
              /\ <<call.c.worldW, call.c.worldH>> = <<400, 300>>) =>
               <<call.out.offsetX, call.out.offsetY>> = <<200, 150>>

\* The world of 400 x 300 was centred for a point far outside it.
C8_Witness ==
    /\ call.fn = "centerAround"
    /\ <<call.c.worldW, call.c.worldH>> = <<400, 300>>
    /\ <<call.x, call.y>> = <<1990, 990>>
    /\ <<call.out.offsetX, call.out.offsetY>> = <<200, 150>>

-----------------------------------------------------------------------------
(* rock.push and rock.update on their own                                  *)

\* The pushes in a row, one way, a rock has had when the calls start.
MaxPushes == 61
\* The push and update calls that follow, in any order.
MaxRockCalls == 4

RECURSIVE Pushed(_, _, _)
\* The rock r after n pushes in direction xDir.
Pushed(r, xDir, n) == IF n = 0 THEN r ELSE Pushed(push(r, xDir), xDir, n - 1)

\* A rock at rest on the floor of level 1's map, the player away from it.
RestingRock ==
    [X |-> 52, Y |-> 16, W |-> 8, H |-> 8, speedX |-> 0, speedY |-> 0,
     rotation |-> 0]

RockMap == newGame(1).tileMap

RockCaveman == Rect(6, 16, 8, 12)

InitRock ==
    /\ Idle
    /\ \E n \in 0 .. MaxPushes, xDir \in {-1, 1} :
           call = [fn |-> "rock", r |-> Pushed(RestingRock, xDir, n), n |-> 0,
                   before |-> 0]

\* r.push(xDir)
PushCall ==
    /\ call.fn \in {"rock", "push", "update"}
    /\ call.n < MaxRockCalls
    /\ \E xDir \in {-7, 7} :
           call' = [fn |-> "push", r |-> push(call.r, xDir), n |-> call.n + 1,
                    before |-> call.r.speedX]
    /\ UNCHANGED IdleVars

\* r.update(m, caveman, others, myIndex), the rock alone in its slice.
UpdateCall ==
    /\ call.fn \in {"rock", "push", "update"}
    /\ call.n < MaxRockCalls
    /\ call' = [fn |-> "update",
                r |-> update(call.r, RockMap, RockCaveman, <<call.r>>, 1),
                n |-> call.n + 1, before |-> call.r.speedX]
    /\ UNCHANGED IdleVars

NextRock == PushCall \/ UpdateCall

SpecRock == InitRock /\ [][NextRock]_vars

\* C6: after any sequence of push and update calls, in any order, the
\* rock's speedX is within [-3, 3].
C6_SpeedWithinLimits ==
    call.fn \in {"rock", "push", "update"} =>
        (call.r.speedX >= -MaxRockSpeed /\ call.r.speedX <= MaxRockSpeed)

\* A push took the speed past a limit and was clamped, after an update.
C6_Witness ==
    /\ call.fn = "push"
    /\ call.n > 1
    /\ Abs(call.before) < MaxRockSpeed
    /\ Abs(call.before) + PushAcceleration > MaxRockSpeed
    /\ Abs(call.r.speedX) = MaxRockSpeed

-----------------------------------------------------------------------------
(* The event loop of game.Frame on its own                                 *)

\* The longest event list of the event loop called on its own.
MaxBatch == 3

KeyFlags == [leftDown : BOOLEAN, rightDown : BOOLEAN, upDown : BOOLEAN]

Flags(g) == [leftDown |-> g.leftDown, rightDown |-> g.rightDown, upDown |-> g.upDown]

WithFlags(g, k) ==
    [g EXCEPT !.leftDown = k.leftDown, !.rightDown = k.rightDown,
              !.upDown = k.upDown]

InitInput ==
    /\ Idle
    /\ \E k \in KeyFlags, events \in EventLists(MaxBatch) :
           call = [fn |-> "keys", flags |-> k, events |-> events]

\* The loop over events at the head of game.Frame(events).
HandleEventsCall ==
    /\ call.fn = "keys"
    /\ call' = [call EXCEPT !.fn = "handleEvents"] @@
               [out |-> Flags(handleEvents(WithFlags(game, call.flags),
                                           call.events))]
    /\ UNCHANGED IdleVars

NextInput == HandleEventsCall

SpecInput == InitInput /\ [][NextInput]_vars

\* The places of the list's events for key.
EventsFor(events, key) == {i \in 1 .. Len(events) : events[i].Key = key}

\* The Down of the last event for key, or prev when the list has none.
LastDown(events, key, prev) ==
    IF EventsFor(events, key) = {} THEN prev
    ELSE events[MaxOf(EventsFor(events, key))].Down

\* C9: in a tick without a Restart, after the event loop each of leftDown,
\* rightDown and upDown is the Down of the list's last event for its key, and
\* is what it was before the tick when the list has no event for the key.
C9_LastEventWins ==
    (call.fn = "handleEvents" /\ ~restartReleased(call.events)) =>
        /\ call.out.leftDown = LastDown(call.events, KeyLeft, call.flags.leftDown)
        /\ call.out.rightDown = LastDown(call.events, KeyRight, call.flags.rightDown)
        /\ call.out.upDown = LastDown(call.events, KeyUp, call.flags.upDown)

\* A list pressed and then released Left, another key in between, with Left
\* up before: Left is up after the loop, and Up is as it was.
C9_Witness ==
    /\ call.fn = "handleEvents"
    /\ Len(call.events) = 3
    /\ call.events[1] = [Down |-> TRUE, Key |-> KeyLeft]
    /\ call.events[2].Key = KeyRight
    /\ call.events[3] = [Down |-> FALSE, Key |-> KeyLeft]
    /\ ~call.out.leftDown
    /\ call.flags.upDown /\ call.out.upDown

-----------------------------------------------------------------------------
(* The object pass of the player on its own                                *)

\* The largest displacement handed to the object pass.
MaxStep == 3

\* The player's rectangle and the places of two rocks of 2 x 2 around it.
StepCaveman == Rect(4, 4, 3, 3)

StepRocks ==
    {<<[X |-> a[1], Y |-> a[2], W |-> 2, H |-> 2],
       [X |-> b[1], Y |-> b[2], W |-> 2, H |-> 2]>> :
        a \in (1 .. 8) \X (1 .. 8), b \in {<<1, 4>>, <<8, 5>>, <<5, 0>>, <<4, 8>>}}

InitCaveman ==
    /\ Idle
    /\ \E rocks \in StepRocks, d \in -MaxStep .. MaxStep :
           call = [fn |-> "step", rocks |-> rocks, start |-> StepCaveman, d |-> d]

\* realDx, hitObject, hit := g.moveCavemanInX(start, dx)
MoveCavemanInXCall ==
    /\ call.fn = "step"
    /\ call' = [call EXCEPT !.fn = "moveCavemanInX"] @@
               [out |-> moveCavemanInX(call.rocks, call.start, call.d)]
    /\ UNCHANGED IdleVars

\* realDy, hitObject := g.moveCavemanInY(start, dy)
MoveCavemanInYCall ==
    /\ call.fn = "step"
    /\ call' = [call EXCEPT !.fn = "moveCavemanInY"] @@
               [out |-> moveCavemanInY(call.rocks, call.start, call.d)]
    /\ UNCHANGED IdleVars

NextCaveman == MoveCavemanInXCall \/ MoveCavemanInYCall

SpecCaveman == InitCaveman /\ [][NextCaveman]_vars

StepDone == call.fn \in {"moveCavemanInX", "moveCavemanInY"}

\* d2 has the sign of d, or is zero, and is no larger.
Shrunk(d, d2) == d2 * d >= 0 /\ Abs(d2) <= Abs(d)

\* No rock overlaps the player's rectangle when the pass is called.
StartsFree ==
    \A i \in 1 .. Len(call.rocks) : ~overlaps(call.start, call.rocks[i])

\* C10 (as the code has it): for every player rectangle that no rock
\* overlaps and every displacement d, moveCavemanInX and moveCavemanInY
\* return a displacement of the sign of d, or zero, of magnitude at most |d|.
C10_ObjectPassShrinks ==
    (StepDone /\ StartsFree) => Shrunk(call.d, call.out.d)

\* A rock in the way cut the displacement short.
C10_Witness ==
    /\ StepDone /\ StartsFree
    /\ call.out.hitObject
    /\ Abs(call.out.d) < Abs(call.d)

\* C10 as stated: the same for every player rectangle and every set of rocks.
C10_AsStated == StepDone => Shrunk(call.d, call.out.d)

-----------------------------------------------------------------------------
(* tileMap.tileAt on its own                                               *)

\* How far outside the grid a queried tile coordinate lies.
MaxOutside == 3

\* Maps of 3 x 2 tiles with every solid-tile configuration.
TileMaps ==
    {[width |-> 3, height |-> 2, tileW |-> 2, tileH |-> 2, tiles |-> t] :
        t \in [0 .. 5 -> BOOLEAN]}

InitTile ==
    /\ Idle
    /\ \E m \in TileMaps,
          tileX \in -MaxOutside .. 2 + MaxOutside,
          tileY \in -MaxOutside .. 1 + MaxOutside :
           call = [fn |-> "tile", m |-> m, tileX |-> tileX, tileY |-> tileY]

\* m.tileAt(tileX, tileY)
TileAtCall ==
    /\ call.fn = "tile"
    /\ call' = [call EXCEPT !.fn = "tileAt"] @@
               [out |-> tileAt(call.m, call.tileX, call.tileY)]
    /\ UNCHANGED IdleVars

NextTile == TileAtCall

SpecTile == InitTile /\ [][NextTile]_vars

\* The tile coordinates lie in [0, width) x [0, height).
InGrid(m, tileX, tileY) ==
    tileX >= 0 /\ tileX < m.width /\ tileY >= 0 /\ tileY < m.height

\* C11: tileAt with tile coordinates outside [0, width) x [0, height)
\* returns a tile that is not solid and reads no element of the tile array;
\* no call reads an index outside the array.
C11_OutsideIsFree ==
    call.fn = "tileAt" =>
        /\ call.out.read \subseteq 0 .. call.m.width * call.m.height - 1
        /\ ~InGrid(call.m, call.tileX, call.tileY) =>
               (~call.out.isSolid /\ call.out.read = {})

\* A query one column past the right edge of a map whose next row starts
\* with a solid tile: the index computed from it would lie in the array.
C11_Witness ==
    /\ call.fn = "tileAt"
    /\ call.tileX = call.m.width /\ call.tileY = 0
    /\ call.m.tiles[call.m.width]
    /\ ~call.out.isSolid

-----------------------------------------------------------------------------
(* Rectangle.overlaps on its own                                           *)

\* The largest coordinate of the two rectangles.
MaxPlace == 3

PlacedRects ==
    {Rect(x, y, w, h) : x \in 0 .. MaxPlace, y \in 0 .. MaxPlace,
                        w \in 1 .. MaxSide, h \in 1 .. MaxSide}

InitOverlap ==
    /\ Idle
    /\ \E r \in PlacedRects, s \in PlacedRects :
           call = [fn |-> "rects", r |-> r, s |-> s]

\* r.overlaps(s)
OverlapsCall ==
    /\ call.fn = "rects"
    /\ call' = [call EXCEPT !.fn = "overlaps"] @@
               [out |-> overlaps(call.r, call.s)]
    /\ UNCHANGED IdleVars

NextOverlap == OverlapsCall

SpecOverlap == InitOverlap /\ [][NextOverlap]_vars

\* The unit cells [X, X + W) x [Y, Y + H) of a rectangle.
Cells(r) == (r.X .. r.X + r.W - 1) \X (r.Y .. r.Y + r.H - 1)

\* The rectangles only touch: the one ends where the other begins, on X or
\* on Y.
Touching(r, s) ==
    \/ r.X + r.W = s.X \/ s.X + s.W = r.X
    \/ r.Y + r.H = s.Y \/ s.Y + s.H = r.Y

\* C12: for rectangles of positive size, overlaps is true exactly when the
\* two ranges share a cell on both axes; rectangles that only touch along an
\* edge or at a corner do not overlap; and r.overlaps(s) = s.overlaps(r).
C12_Overlaps ==
    call.fn = "overlaps" =>
        /\ call.out <=> (Cells(call.r) \cap Cells(call.s) # {})
        /\ Touching(call.r, call.s) => ~call.out
        /\ call.out <=> overlaps(call.s, call.r)

\* Two rectangles that meet at a corner only.
C12_Witness ==
    /\ call.fn = "overlaps"
    /\ call.r.X + call.r.W = call.s.X
    /\ call.r.Y + call.r.H = call.s.Y
    /\ ~call.out

-----------------------------------------------------------------------------
(* The boundary a sweep stops at                                           *)

\* The area a sweep covers: the start rectangle and the requested one.
SweptArea ==
    IF call.fn = "moveInX"
    THEN Rect(MinOf({call.start.X, call.start.X + call.d}), call.start.Y,
              call.start.W + Abs(call.d), call.start.H)
    ELSE Rect(call.start.X, MinOf({call.start.Y, call.start.Y + call.d}),
              call.start.W, call.start.H + Abs(call.d))

\* The solid tiles of m whose cell intersects rectangle r.
SolidCells(m, r) ==
    {t \in (0 .. m.width - 1) \X (0 .. m.height - 1) :
        /\ m.tiles[t[1] + t[2] * m.width]
        /\ overlaps(r, Rect(toWorldX(m, t[1]), toWorldY(m, t[2]), m.tileW, m.tileH))}

\* The far edges (for d < 0) and the near edges minus one (for d > 0) of the
\* solid tiles the sweep intersects, on the axis of the sweep.
FarEdges ==
    IF call.fn = "moveInX"
    THEN {toWorldX(call.m, t[1] + 1) : t \in SolidCells(call.m, SweptArea)}
    ELSE {toWorldY(call.m, t[2] + 1) : t \in SolidCells(call.m, SweptArea)}
NearEdges ==
    IF call.fn = "moveInX"
    THEN {toWorldX(call.m, t[1]) - 1 : t \in SolidCells(call.m, SweptArea)}
    ELSE {toWorldY(call.m, t[2]) - 1 : t \in SolidCells(call.m, SweptArea)}

\* The low and the high edge of the moved rectangle on the axis of the sweep,
\* and the ones requested.
MovedLow == IF call.fn = "moveInX" THEN SweepMoved.X ELSE SweepMoved.Y
MovedHigh ==
    IF call.fn = "moveInX" THEN SweepMoved.X + SweepMoved.W - 1
    ELSE SweepMoved.Y + SweepMoved.H - 1
RequestedLow ==
    IF call.fn = "moveInX" THEN call.start.X + call.d ELSE call.start.Y + call.d
RequestedHigh ==
    IF call.fn = "moveInX" THEN call.start.X + call.start.W - 1 + call.d
    ELSE call.start.Y + call.start.H - 1 + call.d

\* C13: a sweep with d < 0 puts the rectangle's low edge at the maximum far
\* edge among the solid tiles whose cell intersects the swept area, a sweep
\* with d > 0 puts its high edge at the minimum near edge minus one among
\* those tiles, and either puts it at the requested position when no solid
\* tile intersects the swept area.
C13_TightestBoundary ==
    SweepDone =>
        /\ call.d < 0 =>
               MovedLow = IF FarEdges = {} THEN RequestedLow ELSE MaxOf(FarEdges)
        /\ call.d > 0 =>
               MovedHigh = IF NearEdges = {} THEN RequestedHigh ELSE MinOf(NearEdges)

\* The swept area has no negative coordinate.
SweptInside == SweptArea.X >= 0 /\ SweptArea.Y >= 0

C13_Inside == SweptInside => C13_TightestBoundary

-----------------------------------------------------------------------------
(* hitWall                                                                 *)

\* C14: moveInX and moveInY return hitWall = true exactly when the realized
\* displacement differs from the requested one, and a requested displacement
\* of 0 returns (0, false) and passes no tile to tileAt.
C14_HitWall ==
    SweepDone =>
        /\ call.out.hit <=> (call.out.d # call.d)
        /\ call.d = 0 =>
               (call.out.d = 0 /\ ~call.out.hit /\ call.examined = {})

\* A sweep to the right stopped short by a solid tile it examined.
C14_Witness ==
    /\ call.fn = "moveInX"
    /\ call.d > 0
    /\ call.out.hit
    /\ call.out.d >= 0
    /\ call.out.d < call.d
    /\ call.examined # {}

-----------------------------------------------------------------------------
(* The gate sequence                                                       *)

\* One frame of the gate sequence, from g to n: no flag falls back, and the
\* flags of n are those of Idle, Entering, FadingOut or Done.
GateForward(g, n) ==
    /\ g.enteringGate => n.enteringGate
    /\ g.cloudDisappearing => n.cloudDisappearing
    /\ g.levelDone => n.levelDone
    /\ n.cloudDisappearing => n.enteringGate
    /\ n.levelDone => n.cloudDisappearing

\* The games game.Frame makes of the current one, over the event lists.
FrameImages ==
    {frameFromInput(g).g : g \in {frameInput(game, ev) : ev \in EventLists(MaxEvents)}}

\* C15: within one level enteringGate, cloudDisappearing and levelDone each
\* change only from false to true, cloudDisappearing implies enteringGate and
\* levelDone implies cloudDisappearing.
C15_GateForward ==
    /\ game.cloudDisappearing => game.enteringGate
    /\ game.levelDone => game.cloudDisappearing
    /\ (~won) => \A n \in FrameImages : GateForward(game, n)

\* The cloud is disappearing and the next frame finishes the level.
C15_Witness ==
    /\ ~won /\ last.stepped
    /\ game.cloudDisappearing /\ ~game.levelDone
    /\ \E n \in FrameImages : n.levelDone

-----------------------------------------------------------------------------
(* The gate-enter sound                                                    *)

\* What game.Frame makes of the current game, over the event lists:
\* [g, played, pushed].
FrameResults ==
    {frameFromInput(g) : g \in {frameInput(game, ev) : ev \in EventLists(MaxEvents)}}

\* C16: a tick calls cloudSound.Play() at most once, a frame calls it exactly
\* when it changes enteringGate from false to true, and no frame of a level
\* whose enteringGate is set calls it, so that it is called at most once over
\* the frames of one level.
C16_SoundOnce ==
    /\ last.played \in {0, 1}
    /\ (~won) => \A f \in FrameResults :
                     /\ f.played \in {0, 1}
                     /\ f.played = 1 <=> (~game.enteringGate /\ f.g.enteringGate)
                     /\ game.enteringGate => f.played = 0

\* The tick that led here set enteringGate and played the sound, and the
\* player still stands in the trigger zone.
C16_Witness ==
    /\ last.stepped /\ last.played = 1
    /\ game.enteringGate
    /\ atExitEveryFrame(game, cavemanBounds(game))

-----------------------------------------------------------------------------
(* The de-penetration loops of rock.update, iteration by iteration         *)

\* The largest displacement a loop resolves.
MaxBack == 3

\* The rock at p on the axis of the loop, and a body (the player, the other
\* rock) at p on that axis and at q on the other one.
OnAxis(axis, p) == IF axis = "X" THEN Rect(p, 0, 2, 2) ELSE Rect(0, p, 2, 2)
Body(axis, p, q) == IF axis = "X" THEN Rect(p, q, 2, 2) ELSE Rect(q, p, 2, 2)

\* The state when a loop is reached: the rock has been moved by d.
InitBackoff ==
    /\ Idle
    /\ \E axis \in {"X", "Y"}, p \in 0 .. 2 * MaxBack + 2,
          d \in -MaxBack .. MaxBack,
          c \in 0 .. 2 * MaxBack + 2, q \in {0, 1, 2}, o \in {0, MaxBack + 2} :
           call = [fn |-> "backoff", axis |-> axis,
                   r |-> OnAxis(axis, p), d |-> d,
                   backoff |-> IF d < 0 THEN -1 ELSE 1,
                   caveman |-> Body(axis, c, q),
                   others |-> <<OnAxis(axis, p), Body(axis, o, 0)>>,
                   myIndex |-> 1, n |-> 0,
                   r0 |-> OnAxis(axis, p), d0 |-> d]

\* The loop condition, and the break on a displacement of 0.
backoffGoesOnPastZero(c) ==
    overlaps(c.r, c.caveman) \/ overlapsOther(c.others, c.myIndex, c.r)
backoffGoesOn(c) ==
    /\ overlaps(c.r, c.caveman) \/ overlapsOther(c.others, c.myIndex, c.r)
    /\ c.d # 0

\* One iteration: dx -= backoff; r.X -= backoff
BackoffXStep ==
    /\ call.fn = "backoff" /\ call.axis = "X"
    /\ backoffGoesOn(call)
    /\ call.n <= 4 * MaxBack
    /\ call' = [call EXCEPT !.d = @ - call.backoff, !.r.X = @ - call.backoff,
                            !.n = @ + 1]
    /\ UNCHANGED IdleVars

\* One iteration: dy -= backoff; r.Y -= backoff
BackoffYStep ==
    /\ call.fn = "backoff" /\ call.axis = "Y"
    /\ backoffGoesOn(call)
    /\ call.n <= 4 * MaxBack
    /\ call' = [call EXCEPT !.d = @ - call.backoff, !.r.Y = @ - call.backoff,
                            !.n = @ + 1]
    /\ UNCHANGED IdleVars

\* A loop that can be left after any iteration.
BackoffEndAnywhere ==
    /\ call.fn = "backoff"
    /\ call' = [call EXCEPT !.fn = "backedOff"]
    /\ UNCHANGED IdleVars

\* The loop is left.
BackoffEnd ==
    /\ call.fn = "backoff"
    /\ ~backoffGoesOn(call)
    /\ call' = [call EXCEPT !.fn = "backedOff"]
    /\ UNCHANGED IdleVars

NextBackoff == BackoffXStep \/ BackoffYStep \/ BackoffEnd

SpecBackoff == InitBackoff /\ [][NextBackoff]_vars

\* rock.update runs on one goroutine: a loop that can take a step takes it.
LiveBackoff == SpecBackoff /\ WF_vars(NextBackoff)

\* What the loop operator of game.Frame's rock update makes of the start.
BackedOff ==
    IF call.axis = "X"
    THEN backoffX(call.r0, call.d0, call.backoff, call.caveman, call.others,
                  call.myIndex)
    ELSE backoffY(call.r0, call.d0, call.backoff, call.caveman, call.others,
                  call.myIndex)

\* C17: each de-penetration loop of rock.update is left, after at most as
\* many iterations as the magnitude of the displacement it started with, and
\* leaves the rock and the displacement that game.Frame's rock update
\* continues with.
C17_Terminates ==
    /\ <>(call.fn = "backedOff")
    /\ [](call.n <= Abs(call.d0))
    /\ [](call.fn = "backedOff" => (call.r = BackedOff.r /\ call.d = BackedOff.d))

\* A loop that took back the whole displacement and left the rock inside the
\* body it started in.
C17_Witness ==
    /\ call.fn = "backedOff"
    /\ call.n = Abs(call.d0) /\ call.n = MaxBack
    /\ overlaps(call.r, call.caveman)

-----------------------------------------------------------------------------
(* Frames of levels built for the edge of the grid and for bodies in touch *)

\* The frames played on the level with the open edge, and on the level with
\* the pile of rocks.
MaxEdgeTicks == 13
MaxPileTicks == 8
\* The frames played on the level with the rock falling from high up.
MaxFallTicks == 10

\* Two columns of tiles 16 wide and 8 high: column 0 solid up to row 3,
\* column 1 up to row 5; the player starts on top of column 0, the gate is
\* out of reach.
EdgeLevel ==
    [width |-> 2, height |-> 7, tileW |-> 16, tileH |-> 8,
     tiles |-> [i \in 0 .. 13 |-> (i % 2 = 0 /\ i \div 2 <= 3) \/
                                  (i % 2 = 1 /\ i \div 2 <= 5)],
     player |-> <<0, 4>>, playerFacesRight |-> FALSE,
     gate |-> <<1, 6>>, gateFacesRight |-> TRUE,
     rocks |-> <<>>]

\* A floor of 4 tiles of 16 x 16; a rock in the air above the player, a rock
\* on the floor to the right of the player and a rock in the air above that
\* one.  No rock overlaps the player or another rock.
PileLevel ==
    [width |-> 4, height |-> 4, tileW |-> 16, tileH |-> 16,
     tiles |-> [i \in 0 .. 15 |-> i < 4],
     player |-> <<1, 1>>, playerFacesRight |-> TRUE,
     gate |-> <<3, 3>>, gateFacesRight |-> TRUE,
     rocks |-> <<<<1, 2>>, <<2, 1>>, <<2, 2>>>>]

\* A floor of 3 tiles of 16 x 16 and a rock high in the air above the
\* player.
FallLevel ==
    [width |-> 3, height |-> 12, tileW |-> 16, tileH |-> 16,
     tiles |-> [i \in 0 .. 35 |-> i < 3],
     player |-> <<1, 1>>, playerFacesRight |-> TRUE,
     gate |-> <<2, 11>>, gateFacesRight |-> TRUE,
     rocks |-> <<<<1, 9>>>>]

PlayLevels == <<EdgeLevel, PileLevel, FallLevel>>
PlayTicks == <<MaxEdgeTicks, MaxPileTicks, MaxFallTicks>>

InitPlay ==
    /\ \E i \in 0 .. Len(PlayLevels) - 1 :
           /\ levelIndex = i
           /\ game = init(Info, PlayLevels[i + 1])
    /\ won = FALSE
    /\ screen = <<0, 0>>
    /\ ticks = 0
    /\ last = NoFrame
    /\ batch = <<>>
    /\ call = NoCall

\* g.Frame(events)
PlayFrameCall ==
    /\ ticks < PlayTicks[levelIndex + 1]
    /\ \E g \in {frameInput(game, ev) : ev \in EventLists(1)} :
           game' = frameFromInput(g).g
    /\ ticks' = ticks + 1
    /\ UNCHANGED <<levelIndex, won, screen, last, batch, call>>

NextPlay == PlayFrameCall

SpecPlay == InitPlay /\ [][NextPlay]_vars

\* Rock i lies on body b: its bottom edge on b's top edge, within b's width.
LiesOn(r, b) == r.Y = b.Y + b.H /\ r.X < b.X + b.W /\ b.X < r.X + r.W

C19_NoBodyInSolid ==
    /\ ~OverlapsSolid(game.tileMap, cavemanBounds(game))
    /\ \A i \in 1 .. Len(game.rocks) : ~OverlapsSolid(game.tileMap, game.rocks[i])

-----------------------------------------------------------------------------
(* The direction of a sweep                                                *)

\* C20: for a rectangle that overlaps no solid tile, at any position, the
\* displacement moveInX and moveInY return has the sign of the requested one
\* or is zero, and no greater magnitude.
C20_SameDirection ==
    (SweepDone /\ ~OverlapsSolid(call.m, call.start)) =>
        /\ Sign(call.out.d) \in {0, Sign(call.d)}
        /\ Abs(call.out.d) <= Abs(call.d)

\* The same for swept areas without negative coordinates.
C20_Inside == SweptInside => C20_SameDirection

-----------------------------------------------------------------------------
(* Rocks moved through a body                                              *)

\* Body a is above body b, resp. on its left, and within its width, resp.
\* its height.
Above(a, b) == a.Y >= b.Y + b.H /\ a.X < b.X + b.W /\ b.X < a.X + a.W
LeftOf(a, b) == a.X + a.W <= b.X /\ a.Y < b.Y + b.H /\ b.Y < a.Y + a.H

\* The rock, r before its update and n after it, has changed sides of the
\* body, b before and c after.
Passed(r, n, b, c) ==
    \/ Above(r, b) /\ Above(c, n)
    \/ Above(b, r) /\ Above(n, c)
    \/ LeftOf(r, b) /\ LeftOf(c, n)
    \/ LeftOf(b, r) /\ LeftOf(n, c)

\* The rocks of the next frame, once they are all updated.
RocksStepped == stepRocks(game).rocks

\* C21: the rock loop of a frame leaves every rock on the side of the player
\* and of every other rock that it was on before the loop.
C21_NoTunnel ==
    /\ \A i \in 1 .. Len(game.rocks) :
           ~Passed(game.rocks[i], RocksStepped[i],
                   cavemanBounds(game), cavemanBounds(game))
    /\ \A i, j \in 1 .. Len(game.rocks) :
           i # j => ~Passed(game.rocks[i], RocksStepped[i],
                            game.rocks[j], RocksStepped[j])

-----------------------------------------------------------------------------
(* What a de-penetration loop commits                                      *)

\* The rock of the loop with k units of its displacement taken back.
TakenBack(k) ==
    IF call.axis = "X" THEN [call.r0 EXCEPT !.X = @ - k * call.backoff]
    ELSE [call.r0 EXCEPT !.Y = @ - k * call.backoff]

\* The rock at r overlaps neither the player nor another rock.
Apart(r) ==
    /\ ~overlaps(r, call.caveman)
    /\ \A i \in 1 .. Len(call.others) :
           i # call.myIndex => ~overlaps(call.others[i], r)

\* The numbers of units, up to the whole displacement, that leave the rock
\* apart from the other bodies.
ApartAfter == {k \in 0 .. Abs(call.d0) : Apart(TakenBack(k))}

\* C22: a de-penetration loop commits the tile-constrained displacement
\* reduced toward zero, in units, to the first value at which the rock
\* overlaps neither the player nor another rock, and zero when there is no
\* such value, the rock then staying where it was, overlap or not.
C22_FirstFree ==
    call.fn = "backedOff" =>
        /\ ApartAfter # {} =>
               /\ call.n = MinOf(ApartAfter)
               /\ call.d = call.d0 - call.n * call.backoff
               /\ call.r = TakenBack(call.n)
        /\ ApartAfter = {} =>
               /\ call.d = 0
               /\ call.r = TakenBack(Abs(call.d0))
        /\ Abs(call.d) <= Abs(call.d0)
        /\ Sign(call.d) \in {0, Sign(call.d0)}

\* A loop that stopped part of the way, at the first position apart from the
\* other bodies.
C22_Witness ==
    /\ call.fn = "backedOff"
    /\ call.n > 0 /\ call.d # 0
    /\ Apart(call.r) /\ ~Apart(TakenBack(call.n - 1))

-----------------------------------------------------------------------------
(* The push                                                                *)

\* The games of the next frame when the rocks are updated, over the event
\* lists of SpecPlay.
RocksUpdated == {stepRocks(g) : g \in {frameInput(game, ev) : ev \in EventLists(1)}}

\* The player's tile-constrained horizontal displacement in g.
TileDx(g) == moveInX(g.tileMap, cavemanBounds(g), requestedDx(g)).d

\* The area the player's hit box sweeps when moved by dx.
PlayerSweep(g, dx) ==
    Rect(MinOf({cavemanBounds(g).X, cavemanBounds(g).X + dx}), cavemanBounds(g).Y,
         cavemanBounds(g).W + Abs(dx), cavemanBounds(g).H)

\* The rocks in the way of that move, and how far each lets the player go.
InTheWay(g, dx) ==
    {i \in 1 .. Len(g.rocks) : overlaps(PlayerSweep(g, dx), g.rocks[i])}
RoomBefore(g, dx, i) ==
    IF dx < 0 THEN cavemanBounds(g).X - (g.rocks[i].X + g.rocks[i].W)
    ELSE g.rocks[i].X - (cavemanBounds(g).X + cavemanBounds(g).W)

\* The rock rock.push is to be invoked on in g (0: none): the first of those
\* that leave the least room, when the player is on the ground and moves.
RockToPush(g, dx) ==
    IF dx = 0 \/ InTheWay(g, dx) = {} \/ ~g.cavemanIsOnGround THEN 0
    ELSE MinOf({i \in InTheWay(g, dx) :
                   \A j \in InTheWay(g, dx) : RoomBefore(g, dx, i) <= RoomBefore(g, dx, j)})

\* The rocks of g with rock.push(dx) invoked once on rock i (0: on none).
PushedOnce(g, dx, i) ==
    [j \in 1 .. Len(g.rocks) |->
        IF j = i
        THEN [g.rocks[j] EXCEPT !.speedX =
                 clampSpeed(F32Add(@, Sign(dx) * PushAcceleration))]
        ELSE g.rocks[j]]

\* The player's step on g pushes as stated.
PushAsStated(g, c) ==
    /\ c.pushed = RockToPush(g, TileDx(g))
    /\ c.g.rocks = PushedOnce(g, TileDx(g), c.pushed)

\* C23: in a frame rock.push is invoked exactly when the player's
\* tile-constrained horizontal displacement is nonzero, a rock reduces it
\* further and the player was on the ground; it is invoked once, on the rock
\* that leaves the least room, with the sign of the displacement, and the
\* player's step changes nothing else of any rock.
C23_PushOnce ==
    \A g \in RocksUpdated : PushAsStated(g, stepCaveman(g))

\* A frame in which the player, on the ground, runs into a rock and pushes
\* it, and the other rocks keep their speed.
C23_Witness ==
    \E g \in RocksUpdated :
        /\ stepCaveman(g).pushed # 0
        /\ Len(g.rocks) > 1
        /\ stepCaveman(g).g.rocks[stepCaveman(g).pushed].speedX
               # g.rocks[stepCaveman(g).pushed].speedX

-----------------------------------------------------------------------------
(* The jump                                                                *)

\* The games of the next frame once the events are handled, over the event
\* lists of SpecPlay.
InputsHandled == {frameInput(game, ev) : ev \in EventLists(1)}

\* One frame from g, the events handled, to n: the vertical speed rises
\* above zero only by the jump impulse less one frame of gravity, and only
\* for a player on the ground with the jump key held.
JumpStep(g, n) ==
    /\ (n.cavemanSpeedY > 0 /\ n.cavemanSpeedY >= g.cavemanSpeedY) =>
           /\ g.cavemanIsOnGround /\ g.upDown
           /\ n.cavemanSpeedY = JumpSpeed - 1
    /\ (~g.cavemanIsOnGround) =>
           (n.cavemanSpeedY <= 0 \/ n.cavemanSpeedY = g.cavemanSpeedY - 1)

\* C24: cavemanSpeedY is set to the jump impulse only in a frame that the
\* player starts on the ground with the jump key held; in every other frame
\* a vertical speed above zero is the one before less gravity.
C24_NoDoubleJump ==
    /\ game.cavemanSpeedY < JumpSpeed
    /\ \A g \in InputsHandled : JumpStep(g, frameFromInput(g).g)

\* The second frame of a jump, the jump key still held.
C24_Witness ==
    /\ ~game.cavemanIsOnGround /\ game.upDown
    /\ game.cavemanSpeedY = JumpSpeed - 2

-----------------------------------------------------------------------------
(* The end of the player's vertical pass                                   *)

\* The player's hit box in the game c that the player's step makes of g,
\* after the horizontal half: moved on X, not yet on Y.
MovedOnX(g, c) == [cavemanBounds(c) EXCEPT !.Y = cavemanBounds(g).Y]

\* Whether a tile or a rock blocked the vertical pass of that step.
BlockedOnY(g, c) ==
    \/ moveInY(g.tileMap, MovedOnX(g, c), startSpeedY(g)).hit
    \/ moveCavemanInY(c.rocks, MovedOnX(g, c),
                      moveInY(g.tileMap, MovedOnX(g, c), startSpeedY(g)).d).hitObject

\* The end of the frame n for a vertical pass at speed v, blocked or not.
VerticalEnd(n, v, blocked) ==
    /\ (blocked /\ v < 0) => (n.cavemanIsOnGround /\ n.cavemanSpeedY = 0)
    /\ (blocked /\ v >= 0) => (~n.cavemanIsOnGround /\ n.cavemanSpeedY = 0)
    /\ (~blocked) => (~n.cavemanIsOnGround /\ n.cavemanSpeedY = v)

\* C25: a vertical pass blocked by a tile or a rock while moving down leaves
\* the player on the ground with cavemanSpeedY = 0 at the end of the frame,
\* one blocked while moving up leaves cavemanSpeedY = 0 and the player in
\* the air, and one that was not blocked leaves the player in the air with
\* the speed of the pass.
C25_VerticalEnd ==
    \A g \in RocksUpdated :
        VerticalEnd(frameAfterCaveman(stepCaveman(g)).g, startSpeedY(g),
                    BlockedOnY(g, stepCaveman(g).g))

\* The next frame can stop a jump under a rock, and can land the player.
C25_Witness ==
    /\ \E g \in RocksUpdated :
           /\ startSpeedY(g) > 0
           /\ BlockedOnY(g, stepCaveman(g).g)
           /\ moveCavemanInY(g.rocks, MovedOnX(g, stepCaveman(g).g),
                             startSpeedY(g)).hitObject
    /\ game.cavemanIsOnGround

-----------------------------------------------------------------------------
(* The horizontal request                                                  *)

\* -7 with only Left held, +7 with only Right held, 0 otherwise.
HeldDx(g) ==
    IF g.leftDown /\ ~g.rightDown THEN -7
    ELSE IF g.rightDown /\ ~g.leftDown THEN 7
    ELSE 0

\* The displacement on X that the tile pass and the rock pass leave of dx.
PassedDx(g, dx) ==
    IF moveInX(g.tileMap, cavemanBounds(g), dx).d = 0 THEN 0
    ELSE moveCavemanInX(g.rocks, cavemanBounds(g),
                        moveInX(g.tileMap, cavemanBounds(g), dx).d).d

\* One step of the player from g, the rocks updated, to c.
HorizontalStep(g, c) ==
    /\ requestedDx(g) = HeldDx(g)
    /\ c.cavemanX - g.cavemanX = PassedDx(g, HeldDx(g))
    /\ c.cavemanFacesRight =
           IF g.leftDown /\ ~g.rightDown THEN FALSE
           ELSE IF g.rightDown /\ ~g.leftDown THEN TRUE
           ELSE g.cavemanFacesRight

\* C26: in each frame the player's requested horizontal displacement is -7
\* with only Left held, +7 with only Right held and 0 with both or neither
\* held, and the facing direction changes only in frames where exactly one
\* of them is held.
C26_HeldDx ==
    \A g \in RocksUpdated : HorizontalStep(g, stepCaveman(g).g)

\* Both keys are held, and the next frame can leave the player where it is,
\* facing as before.
C26_Witness ==
    /\ ticks > 1
    /\ \E g \in RocksUpdated :
           /\ g.leftDown /\ g.rightDown
           /\ ~g.cavemanFacesRight
           /\ PassedDx(g, -7) # 0
           /\ stepCaveman(g).g.cavemanX = g.cavemanX
           /\ ~stepCaveman(g).g.cavemanFacesRight

-----------------------------------------------------------------------------
(* The order of a frame                                                    *)

\* The rocks with rock k updated against the player's hit box in g and the
\* other rocks as they are.
UpdatedAt(rocks, g, k) ==
    [rocks EXCEPT ![k] = update(@, g.tileMap, cavemanBounds(g), rocks, k)]

RECURSIVE RocksAfter(_, _)
\* The rocks of g when the first k of them are updated, one after the
\* other.
RocksAfter(g, k) ==
    IF k = 0 THEN g.rocks ELSE UpdatedAt(RocksAfter(g, k - 1), g, k)

\* The player's step against the rocks all updated.
PlayerAfterRocks(g) ==
    stepCaveman([g EXCEPT !.rocks = RocksAfter(g, Len(g.rocks))]).g

\* The frame from g to n has updated the rocks in index order, then moved
\* the player against them, to p, then centred the camera on the player's
\* new position.
InOrder(g, n, p) ==
    /\ n.rocks = p.rocks
    /\ n.cavemanX = p.cavemanX
    /\ n.cavemanY = p.cavemanY
    /\ n.camera = centerAround(g.camera, n.cavemanX + GoDiv(Assets.cavemanW, 2),
                               n.cavemanY + GoDiv(Assets.cavemanH, 2))

\* C27: within one Frame call the rocks are updated in index order, each
\* against the player's hit box of the start of the frame and the other
\* rocks' current positions, then the player is moved against the rocks'
\* updated positions, then the camera is centred on the player's committed
\* position.
C27_RocksThenPlayer ==
    \A g \in InputsHandled : InOrder(g, frameFromInput(g).g, PlayerAfterRocks(g))

\* A frame that ends elsewhere when the player is moved first, and moves the
\* camera.
C27_Witness ==
    \E g \in InputsHandled :
        /\ Positions(frameFromInput(g).g) # Positions(stepRocks(stepCaveman(g).g))
        /\ frameFromInput(g).g.camera # g.camera

-----------------------------------------------------------------------------
(* The viewport size                                                       *)

\* C28: the viewport size set by the last SetScreenSize call is the one the
\* game's camera has after every tick, the tick of a Restart and the ticks
\* after a level change included.
C28_ViewportKept ==
    /\ game.camera.screenW = screen[1]
    /\ game.camera.screenH = screen[2]

-----------------------------------------------------------------------------
(* Cosmetic state                                                          *)

\* Values of the cosmetic fields: the rocks' rotation, the animation
\* counters and the gate's idle glow.
Cosmetics ==
    {[rotation |-> 0, pushFrameIndex |-> 0, nextPushFrameChange |-> 0,
      walkFrameIndex |-> 0, nextWalkFrameChange |-> 0,
      gateGlowRatio |-> 0, gateGlowDelta |-> GateGlowDelta],
     [rotation |-> RotationFactor, pushFrameIndex |-> 3,
      nextPushFrameChange |-> PushFrameTicks,
      walkFrameIndex |-> 2, nextWalkFrameChange |-> WalkFrameTicks,
      gateGlowRatio |-> F32One, gateGlowDelta |-> -GateGlowDelta],
     [rotation |-> -RotationFactor, pushFrameIndex |-> 1,
      nextPushFrameChange |-> 5,
      walkFrameIndex |-> 3, nextWalkFrameChange |-> 1,
      gateGlowRatio |-> F32Half, gateGlowDelta |-> GateGlowDelta]}

\* The game g with its cosmetic fields set to v.
WithCosmetics(g, v) ==
    [g EXCEPT !.rocks = [i \in 1 .. Len(g.rocks) |->
                            [g.rocks[i] EXCEPT !.rotation = v.rotation]],
              !.pushFrameIndex = v.pushFrameIndex,
              !.nextPushFrameChange = v.nextPushFrameChange,
              !.walkFrameIndex = v.walkFrameIndex,
              !.nextWalkFrameChange = v.nextWalkFrameChange,
              !.gateGlowRatio = v.gateGlowRatio,
              !.gateGlowDelta = v.gateGlowDelta]

\* The physical state: positions, speeds, the grounded flag, the
\* gate-sequence flags and the cloud they follow.
Physics(g) ==
    [caveman |-> <<g.cavemanX, g.cavemanY, g.cavemanSpeedY, g.cavemanIsOnGround>>,
     rocks |-> [i \in 1 .. Len(g.rocks) |->
                   <<g.rocks[i].X, g.rocks[i].Y, g.rocks[i].speedX, g.rocks[i].speedY>>],
     gate |-> <<g.enteringGate, g.cloudDisappearing, g.levelDone, g.exitGlow>>]

\* The physical state, the sound and the push of a frame's result f.
PhysicsOf(f) == [physics |-> Physics(f.g), played |-> f.played, pushed |-> f.pushed]

\* The frame on g leaves the physical state p under every value of the
\* cosmetic fields.
SamePhysics(g, p) ==
    \A v \in Cosmetics : PhysicsOf(frameFromInput(WithCosmetics(g, v))) = p

\* C29: a frame leaves the same positions, speeds, grounded flag and
\* gate-sequence flags whatever the rocks' rotation, the animation counters
\* and the gate's idle glow are, so that two games that differ only in those
\* agree on them after every frame of the same event lists.
C29_CosmeticsApart ==
    (~won) =>
        \A g \in {frameInput(game, ev) : ev \in EventLists(MaxEvents)} :
            SamePhysics(g, PhysicsOf(frameFromInput(g)))

\* The glow and the walk animation have run, and a rock has been pushed and
\* keeps a speed.
C29_Witness ==
    /\ ~won /\ last.stepped /\ last.pushed # 0
    /\ game.gateGlowRatio > 0 /\ game.nextWalkFrameChange > 0
    /\ \E i \in 1 .. Len(game.rocks) : game.rocks[i].speedX # 0

-----------------------------------------------------------------------------
(* The gate's glow through the gate sequence                               *)

\* The gate states of a frame: idle, entering (the cloud appears) and fading
\* out (the cloud disappears), the latter two with the cloud part-way.
GateStates ==
    {[enteringGate |-> FALSE, cloudDisappearing |-> FALSE, exitGlow |-> 0],
     [enteringGate |-> TRUE, cloudDisappearing |-> FALSE, exitGlow |-> 10 * cloudSpeed],
     [enteringGate |-> TRUE, cloudDisappearing |-> TRUE, exitGlow |-> 10 * cloudSpeed]}

WithGateState(g, v) ==
    [g EXCEPT !.enteringGate = v.enteringGate,
              !.cloudDisappearing = v.cloudDisappearing,
              !.exitGlow = v.exitGlow]

GlowOf(g) == <<g.gateGlowRatio, g.gateGlowDelta>>

\* One frame of the glow, from g to n: the ratio is within [0, 1] and has
\* moved, by the step (the float32 sum, at most half of float32's spacing
\* below 1 away from the exact one, 16 units of 2^-29) or by what was left
\* of it before the bound, and the step keeps its size.
GlowAdvanced(g, n) ==
    /\ n.gateGlowRatio >= 0 /\ n.gateGlowRatio <= F32One
    /\ n.gateGlowRatio # g.gateGlowRatio
    /\ Abs(n.gateGlowRatio - g.gateGlowRatio) <= Abs(g.gateGlowDelta) + 16
    /\ \/ n.gateGlowRatio = F32Add(g.gateGlowRatio, g.gateGlowDelta)
       \/ n.gateGlowRatio \in {0, F32One}
    /\ Abs(n.gateGlowDelta) = Abs(g.gateGlowDelta)

\* The frame on g leaves the glow w in every gate state.
SameGlow(g, w) ==
    \A v \in GateStates : GlowOf(frameFromInput(WithGateState(g, v)).g) = w

\* C30: gateGlowRatio is within [0, 1] at the end of every frame, and every
\* frame advances it by its step, the same in every gate state (idle,
\* entering, fading out) and whatever exitGlow is.
C30_GlowEveryFrame ==
    /\ game.gateGlowRatio >= 0 /\ game.gateGlowRatio <= F32One
    /\ (~won) =>
           \A g \in {frameInput(game, ev) : ev \in EventLists(MaxEvents)} :
               /\ GlowAdvanced(game, frameFromInput(g).g)
               /\ SameGlow(g, GlowOf(frameFromInput(g).g))

\* The cloud is disappearing, and the glow has moved in the frames of the
\* gate sequence.
C30_Witness ==
    /\ ~won /\ last.stepped
    /\ game.cloudDisappearing /\ game.exitGlow > 0 /\ game.exitGlow < F32One
    /\ game.gateGlowRatio > 0 /\ game.gateGlowRatio < F32One
    /\ ticks > MaxTicks + 50

-----------------------------------------------------------------------------
(* The gate sequence ends                                                  *)

\* The main loop calls Frame in every tick (main_windows.go, lines 222-223):
\* Frame calls keep coming.  A Frame call can change the state in every
\* state (a frame of a running game moves the gate's glow, and a Restart
\* release starts a game anew), so that this is WF_vars(FrameCall), written
\* as what it amounts to.
LiveSpec == Spec /\ []<><<FrameCall>>_vars

\* What is left of the cloud's way: up to 1, the turn, and down to 0.
CloudLeft(g) ==
    IF ~g.cloudDisappearing THEN 2 * F32One + cloudSpeed - g.exitGlow
    ELSE g.exitGlow

\* A frame of the gate sequence without a Restart: it finishes the level or
\* takes the step (less at most float32's rounding, 16 units of 2^-29) off
\* what is left of the cloud's way.
GateFrame ==
    (~won /\ game.enteringGate /\ ticks' # ticks /\ ~last'.restarted) =>
        \/ last'.advanced \/ won'
        \/ /\ game'.enteringGate
           /\ CloudLeft(game') >= 0
           /\ CloudLeft(game') <= CloudLeft(game) - (cloudSpeed - 16)

GateRunning == ~won /\ game.enteringGate /\ ~last.restarted

GateLeft == last.advanced \/ won \/ last.restarted

\* C31: once enteringGate is set, every frame without a Restart takes
\* cloudSpeed off a way of at most 2 + cloudSpeed (one ramp of exitGlow up to
\* 1 and one down to 0), whatever the events are, so that after at most 262
\* such frames the level is finished: the gate sequence leads to the next
\* level, to the game won or to a Restart.
C31_GateFinishes ==
    /\ [][GateFrame]_vars
    /\ [](GateRunning => CloudLeft(game) <= 2 * F32One + cloudSpeed)
    /\ GateRunning ~> GateLeft

\* The gate sequence of level 0 has run to its end without a Restart and
\* level 1 is loaded.
C31_Witness ==
    /\ last.advanced /\ last.stepped /\ ~last.restarted
    /\ levelIndex = 1 /\ ticks = 0 /\ ~won

-----------------------------------------------------------------------------
(* The level counter                                                       *)

\* What a game keeps of the level it was built from.
LevelOf(g) ==
    [tileMap |-> g.tileMap, exitX |-> g.exitX, exitY |-> g.exitY,
     exitFacesRight |-> g.exitFacesRight, rocks |-> Len(g.rocks)]

Loaded(g, index) == LevelOf(g) = LevelOf(newGame(index))

\* The counter in a state: a level of the game while it is not won, and the
\* number of levels once it is.
LevelCounted(w, index, g) ==
    /\ w <=> (index = Info.LevelCount)
    /\ (~w) => (index \in 0 .. Info.LevelCount - 1 /\ Loaded(g, index))

\* One tick, from its events handled (c) to its end (r), with finished
\* telling whether game.Frame left the level finished: on the win screen
\* only a Restart release changes anything, and it starts level 0; in play a
\* Restart keeps the level, and otherwise the counter goes up by one exactly
\* when the level is finished.
LevelStep(c, r, finished) ==
    /\ LevelCounted(r.won, r.levelIndex, r.game)
    /\ IF won THEN IF c.restarted THEN r.levelIndex = 0 /\ ~r.won
                   ELSE r.levelIndex = levelIndex /\ r.won /\ r.game = game
       ELSE IF c.restarted THEN r.levelIndex = levelIndex /\ ~r.won
       ELSE r.levelIndex = (IF finished THEN levelIndex + 1 ELSE levelIndex)

\* C32: while the game is not won, levelIndex names a level and the level
\* loaded is that one; a tick counts levelIndex up by one exactly when its
\* frame leaves the level finished, a Restart in play keeps it, and won is
\* set exactly when levelIndex is LevelCount, which only a Restart release
\* ends, with level 0.
C32_LevelIndex ==
    /\ LevelCounted(won, levelIndex, game)
    /\ \A c \in FrameInputs([game |-> game, levelIndex |-> levelIndex, won |-> won]) :
           LevelStep(c, gameFrameRest(c),
                     c.stepped /\ levelFinished(frameFromInput(c.game).g))

\* The last level has been finished and the game is won.
C32_Witness ==
    /\ won /\ levelIndex = Info.LevelCount
    /\ last.stepped /\ ~last.restarted /\ levelFinished(game)

-----------------------------------------------------------------------------
(* Restart                                                                 *)

RestartRelease == [Down |-> FALSE, Key |-> KeyRestart]

HasRelease(events) == \E i \in 1 .. Len(events) : events[i] = RestartRelease

NotRestart(e) == e.Key # KeyRestart

\* The tick of gameFrame f on events, with c what it has made of them when
\* game.Frame's rock loop begins: the tick restarts exactly when the list
\* holds a release of Restart, and then the game is the new one of the level
\* with no key down, the same as for the release alone; a tick that does not
\* restart makes of the list what it makes of it without its Restart events.
RestartTick(f, events, c) ==
    /\ c.restarted <=> HasRelease(events)
    /\ HasRelease(events) =>
           /\ ~c.won
           /\ c = gameFrameInput(f, <<RestartRelease>>)
           /\ c.game = newGame(c.levelIndex)
           /\ ~c.game.leftDown /\ ~c.game.rightDown /\ ~c.game.upDown
    /\ (~HasRelease(events)) =>
           c = gameFrameInput(f, SelectSeq(events, NotRestart))

\* C33: a Restart takes effect on the release of the key only, a press of it
\* does nothing, and the tick of a Restart drops every other event of its
\* list, those before the release too: the new game starts with Left, Right
\* and Up released.
C33_RestartOnRelease ==
    \A events \in EventLists(MaxEvents) :
        RestartTick([game |-> game, levelIndex |-> levelIndex, won |-> won],
                    events,
                    gameFrameInput([game |-> game, levelIndex |-> levelIndex,
                                    won |-> won], events))

\* A Restart in play on level 1: its tick ran the first frame of the new
\* game, with no key down.
C33_Witness ==
    /\ last.restarted /\ last.stepped /\ ticks = 1 /\ levelIndex = 1
    /\ ~game.leftDown /\ ~game.rightDown /\ ~game.upDown

-----------------------------------------------------------------------------
(* A held push: frames of a game whose player holds one direction          *)

\* Frames of a game of held pushes.
MaxHoldTicks == 48

\* A floor of 8 tiles of 16 x 16 with the solid tiles of wall on row 1, the
\* player and the rocks standing on it, and the direction held.
HoldLevel(wall, player, rocks, dir) ==
    [level |-> [width |-> 8, height |-> 3, tileW |-> 16, tileH |-> 16,
                tiles |-> [i \in 0 .. 23 |-> i < 8 \/ i - 8 \in wall],
                player |-> <<player, 1>>, playerFacesRight |-> TRUE,
                gate |-> <<7, 2>>, gateFacesRight |-> FALSE,
                rocks |-> [i \in 1 .. Len(rocks) |-> <<rocks[i], 1>>]],
     dir |-> dir]

\* A rock next to the player on either side, a rock a tile away, a rock with
\* a wall or another rock behind it, and a player that walks away from the
\* rock.
HoldLevels ==
    <<HoldLevel({}, 2, <<3>>, 1), HoldLevel({}, 4, <<3>>, -1),
      HoldLevel({}, 1, <<3>>, 1), HoldLevel({}, 5, <<3>>, -1),
      HoldLevel({4}, 2, <<3>>, 1), HoldLevel({2}, 4, <<3>>, -1),
      HoldLevel({}, 2, <<3, 4>>, 1), HoldLevel({}, 2, <<3>>, -1)>>

\* call: the direction held, the rock the last frame pushed (0: none), the
\* frames in a row that have pushed it since it last moved, and the step of
\* that rock in the last frame.
InitHold ==
    /\ \E i \in 0 .. Len(HoldLevels) - 1 :
           /\ levelIndex = i
           /\ game = init(Info, HoldLevels[i + 1].level)
           /\ call = [fn |-> "hold", dir |-> HoldLevels[i + 1].dir,
                      rock |-> 0, still |-> 0, step |-> 0]
    /\ won = FALSE
    /\ screen = <<0, 0>>
    /\ ticks = 0
    /\ last = NoFrame
    /\ batch = <<>>

KeyOf(dir) == IF dir < 0 THEN KeyLeft ELSE KeyRight

\* The event lists that leave exactly the key of dir held.
HoldEvents(dir) ==
    {<<[Down |-> TRUE, Key |-> KeyOf(dir)]>>,
     <<[Down |-> FALSE, Key |-> KeyOf(-dir)], [Down |-> TRUE, Key |-> KeyOf(dir)]>>,
     <<[Down |-> TRUE, Key |-> KeyOf(dir)], [Down |-> FALSE, Key |-> KeyUp]>>,
     <<[Down |-> TRUE, Key |-> KeyRestart], [Down |-> TRUE, Key |-> KeyOf(dir)]>>}

\* The history after a frame from g that left f.
Held(g, f) ==
    IF f.pushed = 0
    THEN [call EXCEPT !.rock = 0, !.still = 0, !.step = 0]
    ELSE [call EXCEPT
              !.rock = f.pushed,
              !.step = f.g.rocks[f.pushed].X - g.rocks[f.pushed].X,
              !.still = IF call.rock = f.pushed
                           /\ f.g.rocks[f.pushed].X = g.rocks[f.pushed].X
                        THEN @ + 1 ELSE 1]

\* g.Frame(events) with the events of a held key.
HoldFrameCall ==
    /\ call.fn = "hold"
    /\ ticks < MaxHoldTicks
    /\ \E f \in {Frame(game, ev) : ev \in HoldEvents(call.dir)} :
           /\ game' = f.g
           /\ last' = [NoFrame EXCEPT !.stepped = TRUE, !.played = f.played,
                                      !.pushed = f.pushed]
           /\ call' = Held(game, f)
    /\ ticks' = ticks + 1
    /\ UNCHANGED <<levelIndex, won, screen, batch>>

NextHold == HoldFrameCall

SpecHold == InitHold /\ [][NextHold]_vars

\* Rock i of g has room a step on in direction dir: no solid tile and no
\* other body there.
FreeAhead(g, i, dir) ==
    /\ ~OverlapsSolid(g.tileMap, [g.rocks[i] EXCEPT !.X = @ + dir])
    /\ ~overlapsOther(g.rocks, i, [g.rocks[i] EXCEPT !.X = @ + dir])
    /\ ~overlaps([g.rocks[i] EXCEPT !.X = @ + dir], cavemanBounds(g))

\* The frames a push of PushAcceleration against a friction of xGravity
\* takes to bring a resting rock's speed to the half that rounds to a step.
FramesToMove == F32Half \div (PushAcceleration - xGravity) + 2

\* C34: a rock that a grounded player holding one direction pushes frame
\* after frame, and that has room on its far side, moves within FramesToMove
\* frames, and it moves in the direction of the push.
C34_PushMoves ==
    (call.fn = "hold" /\ call.rock # 0) =>
        /\ call.step * call.dir >= 0
        /\ FreeAhead(game, call.rock, call.dir) => call.still < FramesToMove

\* After more than twenty frames of the push the rock has made its first
\* step, in the direction held.
C34_Witness ==
    /\ call.fn = "hold" /\ call.rock # 0
    /\ call.step * call.dir > 0
    /\ ticks > 20 /\ game.rocks[call.rock].X - call.dir =
                        init(Info, HoldLevels[levelIndex + 1].level).rocks[call.rock].X

-----------------------------------------------------------------------------
(* The player at rest                                                      *)

\* The player of g is grounded and stands on a solid tile: its hit box is
\* in no solid tile and a step down would be.
Standing(g) ==
    /\ g.cavemanIsOnGround
    /\ ~OverlapsSolid(g.tileMap, cavemanBounds(g))
    /\ OverlapsSolid(g.tileMap, [cavemanBounds(g) EXCEPT !.Y = @ - 1])

NoKeyHeld(g) == ~g.leftDown /\ ~g.rightDown /\ ~g.upDown

\* The frame from g to n has left the player where it stood, grounded and
\* with no vertical speed.
AtRest(g, n) ==
    /\ n.cavemanX = g.cavemanX /\ n.cavemanY = g.cavemanY
    /\ n.cavemanIsOnGround /\ n.cavemanSpeedY = 0

\* C35: a frame with no key held leaves a grounded player that stands on a
\* solid tile at its position, grounded and with cavemanSpeedY = 0, whatever
\* the rocks do; the player then stands as before, so that this holds for
\* every frame that follows with no key held.
C35_PlayerAtRest ==
    \A g \in {frameInput(game, ev) : ev \in EventLists(1)} :
        (Standing(g) /\ NoKeyHeld(g)) =>
            /\ AtRest(g, frameFromInput(g).g)
            /\ Standing(frameFromInput(g).g)

\* The player stands on the floor with no key held and a rock has come to
\* lie on it.
C35_Witness ==
    /\ Standing(game) /\ NoKeyHeld(game) /\ ticks >= 2
    /\ game.cavemanSpeedY = 0
    /\ \E i \in 1 .. Len(game.rocks) : LiesOn(game.rocks[i], cavemanBounds(game))

-----------------------------------------------------------------------------
(* The rock's vertical speed                                               *)

\* The rock r, its X half done, as rock k of rocks in g.
AfterXHalf(r, rocks, g, k) ==
    updateX([r EXCEPT !.speedX = friction(@)], g.tileMap, cavemanBounds(g), rocks, k)

\* The update from r to n, with hit what the tile sweep of the Y half
\* reported: the speed is 0 after a hit or a step of 0, and two less than it
\* was otherwise.
VerticalSpeed(r, n, hit) ==
    n.speedY = (IF hit \/ n.Y = r.Y THEN 0 ELSE r.speedY - 2)

\* Rock k of rocks in g, updated.
SpeedYStep(rocks, g, k) ==
    VerticalSpeed(rocks[k], UpdatedAt(rocks, g, k)[k],
                  moveInY(g.tileMap, AfterXHalf(rocks[k], rocks, g, k),
                          rocks[k].speedY - 2).hit)

\* C36: after a rock's update its speedY is 0 if the tile sweep of the
\* vertical step reported a hit or the rock's committed vertical step is 0,
\* and otherwise its speedY before less 2, however low that is.
C36_RockSpeedY ==
    \A k \in 1 .. Len(game.rocks) : SpeedYStep(RocksAfter(game, k - 1), game, k)

\* A rock falls faster than the player ever does, and another frame makes
\* it faster.
C36_Witness ==
    \E k \in 1 .. Len(game.rocks) :
        /\ game.rocks[k].speedY < MinSpeedY
        /\ RocksStepped[k].speedY = game.rocks[k].speedY - 2

-----------------------------------------------------------------------------
(* A rock that slows down: rock.update, call after call                    *)

\* The update calls of a rock left alone.
MaxSlowCalls == 30

\* A rock that has had 0 .. MaxPushes pushes one way.
InitSlow ==
    /\ Idle
    /\ \E n \in 0 .. MaxPushes, xDir \in {-1, 1} :
           call = [fn |-> "slow", r |-> Pushed(RestingRock, xDir, n), n |-> 0,
                   before |-> 0, hit |-> FALSE]

\* r.update(m, caveman, others, myIndex), the rock alone in its slice; hit
\* is what the tile sweep of the X half reported.
SlowCall ==
    /\ call.fn = "slow"
    /\ call.n < MaxSlowCalls
    /\ call' = [fn |-> "slow",
                r |-> update(call.r, RockMap, RockCaveman, <<call.r>>, 1),
                n |-> call.n + 1, before |-> call.r.speedX,
                hit |-> moveInX(RockMap, call.r, round(friction(call.r.speedX))).hit]
    /\ UNCHANGED IdleVars

NextSlow == SlowCall

SpecSlow == InitSlow /\ [][NextSlow]_vars

\* The speed s less the friction constant, and no less than zero.
Slowed(s) == MaxOf({0, F32Add(s, -xGravity)})

\* C37: an update takes the friction constant off the size of a rock's
\* speedX once, and no more than the speed has: the speed after it has the
\* sign it had or is zero, a zero speed stays zero, and short of a wall hit
\* (which stops the rock) its size is the size before less the constant,
\* clamped at zero.
C37_FrictionOnce ==
    (call.fn = "slow" /\ call.n > 0) =>
        /\ Sign(call.r.speedX) \in {0, Sign(call.before)}
        /\ Abs(call.r.speedX) \in {0, Slowed(Abs(call.before))}
        /\ (~call.hit) => Abs(call.r.speedX) = Slowed(Abs(call.before))

\* Friction took the last of a speed smaller than the constant, with no
\* wall hit.
C37_Witness ==
    /\ call.fn = "slow" /\ call.n > 2 /\ ~call.hit
    /\ Abs(call.before) \in 1 .. xGravity - 1
    /\ call.r.speedX = 0

-----------------------------------------------------------------------------
(* The rock's horizontal step                                              *)

\* x, in units of 2^-29, rounded to the nearest integer, halves away from
\* zero: floor(x + 0.5) for x >= 0 and ceil(x - 0.5) for x < 0.
HalfAway(x) ==
    IF x >= 0 THEN (x + F32Half) \div F32One
    ELSE -((F32Half - x) \div F32One)

\* The update of rock r to n, with s its speed after friction and mx the
\* tile sweep of its X half: the displacement asked for is s rounded, halves
\* away from zero, the same size for s and -s; the rock's step is no more
\* than that; and a hit of the sweep leaves the rock without speed.
RoundedStep(r, n, s, mx) ==
    /\ round(s) = HalfAway(s)
    /\ round(-s) = -round(s)
    /\ Abs(n.X - r.X) <= Abs(HalfAway(s))
    /\ (n.X - r.X) * HalfAway(s) >= 0
    /\ mx.hit => n.speedX = 0

\* Rock k of rocks in g, updated.
RoundedAt(rocks, g, k) ==
    RoundedStep(rocks[k], UpdatedAt(rocks, g, k)[k], friction(rocks[k].speedX),
                moveInX(g.tileMap, rocks[k], round(friction(rocks[k].speedX))))

\* C38: the displacement a rock's update asks of the tile sweep is its
\* speedX (after friction) rounded to the nearest integer, halves away from
\* zero, so that round(-x) = -round(x) and a speed of 0.5 gives 1; and a hit
\* of that sweep sets speedX to zero.
C38_RoundHalfAway ==
    \A k \in 1 .. Len(game.rocks) : RoundedAt(RocksAfter(game, k - 1), game, k)

-----------------------------------------------------------------------------
(* The rock the player runs into                                           *)

\* The rectangle the object pass on X sweeps, and the rocks in it.
StepSwept ==
    IF call.d < 0 THEN sweptLeft(call.start, call.d) ELSE sweptRight(call.start, call.d)

InStep == {j \in 1 .. Len(call.rocks) : overlaps(StepSwept, call.rocks[j])}

\* How far rock j lets the player go: the player's new X against the rock's
\* right edge on the way left, against its left edge on the way right.
StepBound(j) ==
    IF call.d < 0 THEN call.rocks[j].X + call.rocks[j].W
    ELSE call.rocks[j].X - call.start.W

Tighter(a, b) == IF call.d < 0 THEN a > b ELSE a < b

\* C39: when moveCavemanInX reports hitObject it returns a rock, one the
\* sweep overlaps; the player ends at that rock's edge; no rock in the sweep
\* sets a tighter bound, and the rocks before it in g.rocks set a looser
\* one.
C39_HitRock ==
    (call.fn = "moveCavemanInX" /\ call.out.hitObject) =>
        /\ call.out.hit \in InStep
        /\ call.start.X + call.out.d = StepBound(call.out.hit)
        /\ \A j \in InStep : ~Tighter(StepBound(j), StepBound(call.out.hit))
        /\ \A j \in InStep :
               j < call.out.hit => Tighter(StepBound(call.out.hit), StepBound(j))

\* Both rocks are in the sweep of a move to the right, and the first one,
\* the nearer, is returned: the second has not taken its place.
C39_Witness ==
    /\ call.fn = "moveCavemanInX" /\ call.d > 0 /\ call.out.hitObject
    /\ InStep = {1, 2}
    /\ call.out.hit = 1
    /\ call.rocks[1].X < call.rocks[2].X

====
